---------------------------- MODULE Spec2Model ----------------------------
(***************************************************************************)
(* Receipt & Warranty Manager (src/app.py): the metadata <-> filesystem    *)
(* synchronisation engine.  Strings are sequences of one-character         *)
(* strings, paths are pathlib part sequences, the filesystem is a set of   *)
(* files and a set of directories, the data file is missing, corrupt or a  *)
(* JSON document.                                                          *)
(***************************************************************************)
EXTENDS Integers, Sequences, FiniteSets, TLC

(***************************************************************************)
(* Bounds of the model                                                     *)
(***************************************************************************)
\* handlers run per behaviour
MaxOps == 3
\* seconds the wall clock may advance
MaxClock == 1
\* handlers run per behaviour of uploads and updates alone
MaxRelocOps == 4
\* saves per behaviour of saves alone
MaxSaves == 26
\* seconds the wall clock may advance between those saves
MaxBkClock == 26
\* the seconds, from the first on, in which several saves may fall
MaxBurstClock == 1
\* load-mutate-save cycles begun per behaviour of the two threads
MaxLockOps == 3
\* handlers run per behaviour of uploads and deletions alone
MaxIdOps == 7
\* imports per behaviour of imports alone
MaxImpOps == 3
\* handlers run per behaviour of an import and updates alone
MaxUpdOps == 4
\* handlers run per behaviour of the store from empty
MaxStoreOps == 4
\* requests the handler thread serves while the worker runs for ever
MaxLiveOps == 2
\* the longest guarantee duration of a call
MaxDuration == 13
\* the longest text given to sanitize_filename
MaxTextLen == 3
\* the largest max_length given to sanitize_filename
MaxArgLen == 8

(***************************************************************************)
(* Strings                                                                 *)
(***************************************************************************)
SetMin(S) == CHOOSE x \in S : \A y \in S : x <= y
SetMax(S) == CHOOSE x \in S : \A y \in S : y <= x

Digits == <<"0", "1", "2", "3", "4", "5", "6", "7", "8", "9">>
IsDigit(c) == \E i \in 1..10 : Digits[i] = c
DigitVal(c) == (CHOOSE i \in 1..10 : Digits[i] = c) - 1
DigitChr(n) == Digits[n + 1]

\* int(s) for a non-empty digit string
RECURSIVE StrToNat(_)
StrToNat(s) ==
    IF s = <<>> THEN 0
    ELSE StrToNat(SubSeq(s, 1, Len(s) - 1)) * 10 + DigitVal(s[Len(s)])

\* str(n) for n >= 0
RECURSIVE NatToStr(_)
NatToStr(n) ==
    IF n < 10 THEN <<DigitChr(n)>>
    ELSE NatToStr(n \div 10) \o <<DigitChr(n % 10)>>

\* f"{n:0{w}d}"
RECURSIVE ZeroPadTo(_, _)
ZeroPadTo(s, w) == IF Len(s) >= w THEN s ELSE ZeroPadTo(<<"0">> \o s, w)
ZeroPad(n, w) == ZeroPadTo(NatToStr(n), w)

StartsWith(s, p) == Len(p) <= Len(s) /\ SubSeq(s, 1, Len(p)) = p

\* s.replace(c, "")
RemoveChar(s, c) == SelectSeq(s, LAMBDA x : x # c)

\* "-".join(parts), "/".join(parts)
RECURSIVE JoinWith(_, _)
JoinWith(parts, sep) ==
    IF parts = <<>> THEN <<>>
    ELSE IF Len(parts) = 1 THEN parts[1]
    ELSE parts[1] \o sep \o JoinWith(Tail(parts), sep)

\* s.split("/")
RECURSIVE SplitSlash(_)
SplitSlash(s) ==
    LET pos == {i \in 1..Len(s) : s[i] = "/"}
    IN  IF pos = {} THEN <<s>>
        ELSE LET i == SetMin(pos)
             IN  <<SubSeq(s, 1, i - 1)>> \o SplitSlash(SubSeq(s, i + 1, Len(s)))

S_NA_SLASH == <<"N", "/", "A">>
S_NA == <<"N", "A">>
S_UNNAMED == <<"u", "n", "n", "a", "m", "e", "d">>
S_NOUSER == <<"N", "o", "U", "s", "e", "r">>
S_DAYS == <<"d", "a", "y", "s">>
S_MONTHS == <<"m", "o", "n", "t", "h", "s">>
S_YEARS == <<"y", "e", "a", "r", "s">>

(***************************************************************************)
(* sanitize_filename                                                       *)
(***************************************************************************)
\* the class [<>:"/\\|?*\x00-\x1f]; "\t" stands for the control characters
ForbiddenChars == {"<", ">", ":", "\"", "/", "\\", "|", "?", "*", "\t"}
\* what \s still matches once the control characters are gone
IsSpace(c) == c = " "

StripForbidden(s) == SelectSeq(s, LAMBDA c : c \notin ForbiddenChars)

\* re.sub(r"[\s]+", "-", text)
SpacesToHyphen(s) ==
    LET m == [i \in 1..Len(s) |->
                 IF IsSpace(s[i])
                 THEN (IF i > 1 /\ IsSpace(s[i - 1]) THEN "" ELSE "-")
                 ELSE s[i]]
    IN  SelectSeq(m, LAMBDA c : c # "")

\* re.sub(r"-+", "-", text)
CollapseHyphens(s) ==
    LET m == [i \in 1..Len(s) |->
                 IF s[i] = "-" /\ i > 1 /\ s[i - 1] = "-" THEN "" ELSE s[i]]
    IN  SelectSeq(m, LAMBDA c : c # "")

\* text.strip("-")
StripHyphens(s) ==
    LET idx == {i \in 1..Len(s) : s[i] # "-"}
    IN  IF idx = {} THEN <<>> ELSE SubSeq(s, SetMin(idx), SetMax(idx))

\* text.rstrip("-")
RStripHyphens(s) ==
    LET idx == {i \in 1..Len(s) : s[i] # "-"}
    IN  IF idx = {} THEN <<>> ELSE SubSeq(s, 1, SetMax(idx))

\* lines 37-40: forbidden characters, whitespace runs, hyphen runs, strip
CleanName(text) ==
    StripHyphens(CollapseHyphens(SpacesToHyphen(StripForbidden(text))))
\* lines 41-42
TruncateName(t, max_length) ==
    IF Len(t) > max_length THEN RStripHyphens(SubSeq(t, 1, max_length)) ELSE t
\* line 43
OrUnnamed(t) == IF t = <<>> THEN S_UNNAMED ELSE t

sanitize_filename(text, max_length) ==
    IF text = <<>> \/ text = S_NA_SLASH THEN S_NA
    ELSE OrUnnamed(TruncateName(CleanName(text), max_length))

(***************************************************************************)
(* Dates: datetime.strptime / strftime with "%Y-%b-%d", timedelta          *)
(***************************************************************************)
UpperLetters == <<"A", "B", "C", "D", "E", "F", "G", "H", "I", "J", "K", "L", "M",
                  "N", "O", "P", "Q", "R", "S", "T", "U", "V", "W", "X", "Y", "Z">>
LowerLetters == <<"a", "b", "c", "d", "e", "f", "g", "h", "i", "j", "k", "l", "m",
                  "n", "o", "p", "q", "r", "s", "t", "u", "v", "w", "x", "y", "z">>
LowerChr(c) ==
    IF \E i \in 1..26 : UpperLetters[i] = c
    THEN LowerLetters[CHOOSE i \in 1..26 : UpperLetters[i] = c]
    ELSE c
\* str.lower()
LowerStr(s) == [i \in 1..Len(s) |-> LowerChr(s[i])]

MonthNames == << <<"J", "a", "n">>, <<"F", "e", "b">>, <<"M", "a", "r">>,
                 <<"A", "p", "r">>, <<"M", "a", "y">>, <<"J", "u", "n">>,
                 <<"J", "u", "l">>, <<"A", "u", "g">>, <<"S", "e", "p">>,
                 <<"O", "c", "t">>, <<"N", "o", "v">>, <<"D", "e", "c">> >>

MINYEAR == 1
MAXYEAR == 9999

NoDate == [y |-> 0, m |-> 0, d |-> 0]

IsLeap(y) == (y % 4 = 0 /\ y % 100 # 0) \/ y % 400 = 0
DaysInMonth(y, m) ==
    IF m = 2 THEN (IF IsLeap(y) THEN 29 ELSE 28)
    ELSE IF m \in {4, 6, 9, 11} THEN 30 ELSE 31

\* datetime(y, m, d) raises ValueError unless this holds
ValidDate(y, m, d) ==
    /\ y >= MINYEAR /\ y <= MAXYEAR
    /\ m >= 1 /\ m <= 12
    /\ d >= 1 /\ d <= DaysInMonth(y, m)

\* the day directive's regex 3[0-1]|[1-2]\d|0[1-9]|[1-9]| [1-9]; 0 when no match
ParseDay(s) ==
    IF Len(s) = 2 /\ IsDigit(s[1]) /\ IsDigit(s[2])
    THEN LET v == StrToNat(s) IN IF v >= 1 /\ v <= 31 THEN v ELSE 0
    ELSE IF Len(s) = 2 /\ s[1] = " " /\ IsDigit(s[2]) /\ s[2] # "0" THEN DigitVal(s[2])
    ELSE IF Len(s) = 1 /\ IsDigit(s[1]) /\ s[1] # "0" THEN DigitVal(s[1])
    ELSE 0

\* datetime.strptime(s, "%Y-%b-%d"); NoDate stands for the ValueError
strptime(s) ==
    IF Len(s) < 10 \/ Len(s) > 11 THEN NoDate
    ELSE IF ~(\A i \in 1..4 : IsDigit(s[i])) \/ s[5] # "-" \/ s[9] # "-" THEN NoDate
    ELSE LET y == StrToNat(SubSeq(s, 1, 4))
             mn == LowerStr(SubSeq(s, 6, 8))
             ms == {i \in 1..12 : LowerStr(MonthNames[i]) = mn}
             d == ParseDay(SubSeq(s, 10, Len(s)))
         IN  IF ms = {} \/ d = 0 THEN NoDate
             ELSE LET m == CHOOSE i \in ms : TRUE
                  IN  IF ValidDate(y, m, d) THEN [y |-> y, m |-> m, d |-> d]
                      ELSE NoDate

\* dt.strftime("%Y" + sep + "%b" + sep + "%d"): glibc prints the year unpadded
strftime(dt, sep) ==
    NatToStr(dt.y) \o sep \o MonthNames[dt.m] \o sep \o ZeroPad(dt.d, 2)

FormatOrStrip(dt, date_str) ==
    IF dt # NoDate THEN strftime(dt, <<>>) ELSE RemoveChar(date_str, "-")
format_date_for_filename(date_str) == FormatOrStrip(strptime(date_str), date_str)

\* dt + timedelta(days=n), n >= 0; NoDate stands for the OverflowError
RECURSIVE AddDays(_, _)
AddDays(dt, n) ==
    IF dt.d + n <= DaysInMonth(dt.y, dt.m) THEN [dt EXCEPT !.d = dt.d + n]
    ELSE LET rest == n - (DaysInMonth(dt.y, dt.m) - dt.d + 1)
         IN  IF dt.m = 12
             THEN (IF dt.y + 1 > MAXYEAR THEN NoDate
                   ELSE AddDays([y |-> dt.y + 1, m |-> 1, d |-> 1], rest))
             ELSE AddDays([y |-> dt.y, m |-> dt.m + 1, d |-> 1], rest)

\* datetime(year, month + 1, 1) - timedelta(days=1), or datetime(year + 1, 1, 1)
\* - timedelta(days=1) for December; NoDate stands for the ValueError
LastDayOf(year, month) ==
    IF month = 12
    THEN (IF ValidDate(year + 1, 1, 1)
          THEN [y |-> year, m |-> 12, d |-> 31] ELSE NoDate)
    ELSE (IF ValidDate(year, month + 1, 1)
          THEN [y |-> year, m |-> month, d |-> DaysInMonth(year, month)]
          ELSE NoDate)

\* the branch "months" of calculate_guarantee_end_date
EndDateMonths(dt, duration) ==
    LET month0 == dt.m + duration
        year == dt.y + ((month0 - 1) \div 12)
        month == ((month0 - 1) % 12) + 1
        last_day == LastDayOf(year, month)
    IN  IF last_day = NoDate THEN NoDate
        ELSE IF dt.d <= last_day.d THEN [last_day EXCEPT !.d = dt.d]
        ELSE last_day

\* the branch "years" of calculate_guarantee_end_date
EndDateYears(dt, duration) ==
    LET year == dt.y + duration
    IN  IF ~ValidDate(year, dt.m, dt.d) /\ ~ValidDate(year, dt.m, 28) THEN NoDate
        ELSE LastDayOf(year, dt.m)

\* lines 57-85: the end date by unit
EndDate(dt, duration, unit) ==
    IF unit = S_DAYS THEN AddDays(dt, duration)
    ELSE IF unit = S_MONTHS THEN EndDateMonths(dt, duration)
    ELSE IF unit = S_YEARS THEN EndDateYears(dt, duration)
    ELSE NoDate
\* line 86, and the placeholder of lines 85 and 88
FormatEnd(end_dt) == IF end_dt = NoDate THEN S_NA_SLASH ELSE strftime(end_dt, <<"-">>)
EndOfParsed(dt, duration, unit) ==
    IF dt = NoDate THEN S_NA_SLASH ELSE FormatEnd(EndDate(dt, duration, unit))

\* a calculation without the test of line 53
calculate_guarantee_end_date_NoZero(purchase_date, duration, unit) ==
    EndOfParsed(strptime(purchase_date), duration, unit)
\* duration is a natural number here; a placeholder is the string "N/A"
calculate_guarantee_end_date(purchase_date, duration, unit) ==
    IF duration = 0 THEN S_NA_SLASH
    ELSE EndOfParsed(strptime(purchase_date), duration, unit)

(***************************************************************************)
(* pathlib paths: an absolute path is the sequence of its parts after "/"  *)
(***************************************************************************)
S_DOTDOT == <<".", ".">>
S_DOT == <<".">>
S_SLASH == <<"/">>

\* the parts pathlib keeps of a string: "" and "." are dropped, ".." is kept
PathParts(s) == SelectSeq(SplitSlash(s), LAMBDA c : c # <<>> /\ c # S_DOT)
\* base / s
PathJoin(base, s) ==
    IF s # <<>> /\ s[1] = "/" THEN PathParts(s) ELSE base \o PathParts(s)
\* str(path)
PathStr(p) == S_SLASH \o JoinWith(p, S_SLASH)
\* path.name, path.parent
PathName(p) == IF p = <<>> THEN <<>> ELSE p[Len(p)]
PathParent(p) == IF p = <<>> THEN <<>> ELSE SubSeq(p, 1, Len(p) - 1)
\* the suffix of a file name: from its last dot, unless that dot is first or last
NameSuffix(name) ==
    LET dots == {i \in 1..Len(name) : name[i] = "."}
    IN  IF dots = {} THEN <<>>
        ELSE LET i == SetMax(dots)
             IN  IF 1 < i /\ i < Len(name) THEN SubSeq(name, i, Len(name)) ELSE <<>>
NameStem(name) == SubSeq(name, 1, Len(name) - Len(NameSuffix(name)))
PathSuffix(p) == NameSuffix(PathName(p))

\* Path.resolve() and the kernel's walk on a tree without symbolic links
RECURSIVE Resolve(_)
Resolve(p) ==
    IF p = <<>> THEN <<>>
    ELSE LET r == Resolve(PathParent(p))
         IN  IF PathName(p) = S_DOTDOT THEN PathParent(r) ELSE Append(r, PathName(p))

BASE_DIR == << <<"b">> >>
DATA_DIR == BASE_DIR \o << <<"d", "a", "t", "a">> >>
RECEIPTS_DIR == BASE_DIR \o << <<"_", "R", "e", "c", "e", "i", "p", "t", "s">> >>
BACKUP_DIR == DATA_DIR \o << <<"b", "a", "c", "k", "u", "p", "s">> >>
S_UPLOADS == <<"u", "p", "l", "o", "a", "d", "s">>

(***************************************************************************)
(* The filesystem: fs.files and fs.dirs are sets of resolved paths         *)
(***************************************************************************)
\* every part of p but the last is looked up in an existing directory
LookupOk(fs, p) == \A i \in 0..(Len(p) - 1) : Resolve(SubSeq(p, 1, i)) \in fs.dirs
\* path.exists(), path.is_file(), path.is_dir()
PathExists(fs, p) == LookupOk(fs, p) /\ Resolve(p) \in (fs.files \cup fs.dirs)
PathIsFile(fs, p) == LookupOk(fs, p) /\ Resolve(p) \in fs.files
PathIsDir(fs, p) == LookupOk(fs, p) /\ Resolve(p) \in fs.dirs

\* path.mkdir(exist_ok=True) does not raise
MkdirOk(fs, p) == PathIsDir(fs, p) \/ (LookupOk(fs, p) /\ ~PathExists(fs, p))
MkdirFs(fs, p) ==
    IF MkdirOk(fs, p) THEN [fs EXCEPT !.dirs = @ \cup {Resolve(p)}] ELSE fs

\* os.rename(src, dst) of a file onto a free name does not raise
RenameOk(fs, src, dst) ==
    PathIsFile(fs, src) /\ LookupOk(fs, dst) /\ ~PathExists(fs, dst)
RenameFs(fs, src, dst) ==
    [fs EXCEPT !.files = (@ \ {Resolve(src)}) \cup {Resolve(dst)}]

\* path.rmdir() inside try/except: an empty directory goes, anything else stays
IsPrefixPath(d, q) == Len(d) < Len(q) /\ SubSeq(q, 1, Len(d)) = d
RmdirOk(fs, p) ==
    /\ p # <<>> /\ PathName(p) # S_DOTDOT
    /\ PathIsDir(fs, p)
    /\ ~\E q \in fs.files \cup fs.dirs : IsPrefixPath(Resolve(p), q)
TryRmdirFs(fs, p) ==
    IF RmdirOk(fs, p) THEN [fs EXCEPT !.dirs = @ \ {Resolve(p)}] ELSE fs

\* path.unlink()
UnlinkFs(fs, p) == [fs EXCEPT !.files = @ \ {Resolve(p)}]

\* path.write_bytes(...) does not raise
WriteOk(fs, p) == LookupOk(fs, p) /\ ~PathIsDir(fs, p)
WriteFs(fs, p) == [fs EXCEPT !.files = @ \cup {Resolve(p)}]

(***************************************************************************)
(* The store document and the data file                                    *)
(***************************************************************************)
EmptyDoc == [receipts |-> <<>>, items |-> <<>>, next_id |-> 1]

FileMissing == [st |-> "missing"]
FileCorrupt == [st |-> "corrupt"]
FileJson(doc) == [st |-> "json", doc |-> doc]

\* max((i["id"] for i in items), default=0) + 1
MaxIdPlusOne(items) ==
    IF items = <<>> THEN 1 ELSE SetMax({items[i].id : i \in 1..Len(items)}) + 1

\* a file that holds a JSON array is returned as it is when "next_id" is one
\* of its elements (line 96 is a membership test); any other value that is
\* not an object raises at line 96 or 97 and ends in the handler of line 99
load_data(df) ==
    IF df.st = "array" /\ (\E i \in 1..Len(df.doc) : df.doc[i] = "next_id") THEN df.doc
    ELSE IF df.st # "json" THEN EmptyDoc
    ELSE IF "next_id" \notin DOMAIN df.doc
         THEN [k \in DOMAIN df.doc \cup {"next_id"} |->
                  IF k = "next_id" THEN MaxIdPlusOne(df.doc.items) ELSE df.doc[k]]
         ELSE df.doc

\* data["integrity_issues"] = issues
WithIssues(doc, issues) ==
    [k \in DOMAIN doc \cup {"integrity_issues"} |->
        IF k = "integrity_issues" THEN issues ELSE doc[k]]
\* doc.pop("integrity_issues", None)
DropIssues(doc) == [k \in DOMAIN doc \ {"integrity_issues"} |-> doc[k]]

KeepBackups == 20

\* shutil.copy2(DATA_FILE, BACKUP_DIR / f"data_backup_{ts}.json"): a backup of the
\* same second is overwritten; ts is the clock, the names being of fixed width
PutBackup(bk, now, df) ==
    {b \in bk : b.ts # now} \cup {[ts |-> now, content |-> df]}
\* for b in sorted(backups)[:-20]: b.unlink()
PruneBackups(bk) ==
    IF Cardinality(bk) > KeepBackups
    THEN {b \in bk : Cardinality({c \in bk : c.ts > b.ts}) < KeepBackups}
    ELSE bk

\* a JSON array as a handler holds it after json.loads, and the file that
\* holds it
JsonArray(elems) == [array |-> elems]
IsArray(v) == DOMAIN v = {"array"}
FileArray(elems) == [st |-> "array", doc |-> elems]
\* a file that holds a number, true, false or null
FileScalar == [st |-> "scalar"]
\* json.dumps(data) written to the data file
FileOf(data) == IF IsArray(data) THEN FileArray(data.array) ELSE FileJson(data)

\* a comparison that takes integrity_issues for a change
SaveChanged_WithIssues(df, data) ==
    /\ df.st # "missing"
    /\ (df.st = "corrupt" \/ data # df.doc)
\* save_data compares the documents without integrity_issues
\* (lines 114-121); on a JSON array either pop raises, and the handler of line
\* 122 takes the documents for different
SaveChanged(df, data) ==
    /\ df.st # "missing"
    /\ (df.st # "json" \/ IsArray(data) \/ DropIssues(data) # DropIssues(df.doc))

\* fault: "none"; "backup" (shutil.copy2 raises, nothing is written); "write"
\* (f.write raises after open("w") has truncated the file)
save_data(df, bk, data, now, fault) ==
    LET changed == SaveChanged(df, data)
        bk1 == IF changed THEN PruneBackups(PutBackup(bk, now, df)) ELSE bk
    IN  IF changed /\ fault = "backup"
        THEN [file |-> df, backups |-> bk, ok |-> FALSE]
        ELSE IF fault = "write"
        THEN [file |-> FileCorrupt, backups |-> bk1, ok |-> FALSE]
        ELSE [file |-> FileOf(data), backups |-> bk1, ok |-> TRUE]

S_RG == <<"R", "G", "-">>

\* re.search(r"RG-(\d+)", rid): the number after the first "RG-" that digits
\* follow, -1 when there is no match
GroupNumber(rid) ==
    LET starts == {i \in 1..Len(rid) :
                      i + 3 <= Len(rid) /\ SubSeq(rid, i, i + 2) = S_RG
                      /\ IsDigit(rid[i + 3])}
    IN  IF starts = {} THEN -1
        ELSE LET i == SetMin(starts)
                 stop == {j \in (i + 3)..Len(rid) : ~IsDigit(rid[j])}
                 last == IF stop = {} THEN Len(rid) ELSE SetMin(stop) - 1
             IN  StrToNat(SubSeq(rid, i + 3, last))

\* an id made of the number of receipts instead of the maximum suffix
generate_receipt_group_id_Count(data) == S_RG \o ZeroPad(Len(data.receipts) + 1, 4)
generate_receipt_group_id(data) ==
    LET numbers == {GroupNumber(data.receipts[i].receipt_group_id) :
                        i \in 1..Len(data.receipts)} \ {-1}
        top == IF numbers = {} THEN 0 ELSE SetMax(numbers)
    IN  S_RG \o ZeroPad(top + 1, 4)

\* base[:n]
Prefix(s, n) == SubSeq(s, 1, IF n < Len(s) THEN n ELSE Len(s))

MaxNameLen == 200

\* line 156
UsersPart(users) ==
    IF users = <<>> THEN S_NOUSER
    ELSE JoinWith([i \in 1..(IF Len(users) < 3 THEN Len(users) ELSE 3)
                      |-> sanitize_filename(users[i], 15)], <<"-">>)
\* lines 160-165
CapName(base, ext) ==
    IF Len(base) + Len(ext) > MaxNameLen
    THEN Prefix(base, MaxNameLen - Len(ext)) \o ext
    ELSE base \o ext

build_single_item_filename(item, receipt, ext) ==
    CapName(JoinWith(<< sanitize_filename(item.brand, 30),
                        sanitize_filename(item.model, 30),
                        format_date_for_filename(receipt.purchase_date),
                        sanitize_filename(receipt.shop, 20),
                        sanitize_filename(item.location, 20),
                        UsersPart(item.users),
                        sanitize_filename(receipt.documentation, 20) >>, <<"-">>),
            ext)

get_storage_directory(item) ==
    IF item.project # <<>> /\ item.project # S_NA_SLASH
    THEN PathJoin(BASE_DIR, sanitize_filename(item.project, 50))
    ELSE PathJoin(BASE_DIR, sanitize_filename(item.brand, 50))

\* an issue for every item, the ones without a stored path included
verify_file_integrity_AnyPath(fs, data) ==
    LET bad == SelectSeq(data.items,
                   LAMBDA it : it.receipt_relative_path = <<>>
                       \/ ~PathExists(fs, PathJoin(BASE_DIR, it.receipt_relative_path)))
    IN  [i \in 1..Len(bad) |->
            [id |-> bad[i].id, type |-> "item",
             receipt_group_id |-> bad[i].receipt_group_id,
             path |-> bad[i].receipt_relative_path]]
\* one issue per item whose non-empty stored path does not exist under BASE_DIR
verify_file_integrity(fs, data) ==
    LET bad == SelectSeq(data.items,
                   LAMBDA it : it.receipt_relative_path # <<>>
                       /\ ~PathExists(fs, PathJoin(BASE_DIR, it.receipt_relative_path)))
    IN  [i \in 1..Len(bad) |->
            [id |-> bad[i].id, type |-> "item",
             receipt_group_id |-> bad[i].receipt_group_id,
             path |-> bad[i].receipt_relative_path]]

(***************************************************************************)
(* Inputs of the requests                                                  *)
(***************************************************************************)
S_a == <<"a">>
S_s == <<"s">>
S_w == <<"w">>
S_PDF == <<".", "p", "d", "f">>
S_BIN == <<".", "b", "i", "n">>
D_JAN31 == <<"2", "0", "2", "4", "-", "J", "a", "n", "-", "3", "1">>
D_FEB29 == <<"2", "0", "2", "4", "-", "F", "e", "b", "-", "2", "9">>
S_ETC == <<"e", "t", "c">>
S_PASSWD == <<"p", "a", "s", "s", "w", "d">>
S_BX == <<"b", "x">>

\* datetime.now().strftime("%Y%m%d_%H%M%S"), the clock counting the seconds of
\* one minute
TsStr(t) ==
    <<"2", "0", "2", "4", "0", "1", "3", "1", "_", "1", "2", "0", "0">> \o ZeroPad(t, 2)
\* _today_ymmmdd()
Today == D_JAN31

\* the multipart file names a client sends
UploadNames == { <<"r">> \o S_PDF }
\* Content-Length values
max_len == 50 * 1024 * 1024

\* the relative path an upload of r.pdf at second 0 is stored under
RelUpload0 ==
    JoinWith(<< RECEIPTS_DIR[2], S_UPLOADS, TsStr(0) \o <<"_", "r">> \o S_PDF >>, S_SLASH)
RelEscape == JoinWith(<< S_DOTDOT, S_ETC, S_PASSWD >>, S_SLASH)

RG(n) == S_RG \o ZeroPad(n, 4)

MkReceipt(rg, path) ==
    [receipt_group_id |-> rg, shop |-> S_s, purchase_date |-> D_JAN31,
     documentation |-> S_NA_SLASH, receipt_filename |-> PathName(PathParts(path)),
     receipt_relative_path |-> path]
MkItem(id, rg, path) ==
    [id |-> id, receipt_group_id |-> rg, brand |-> S_NA_SLASH, model |-> S_NA_SLASH,
     location |-> S_NA_SLASH, users |-> <<>>, project |-> S_NA_SLASH,
     guarantee_duration |-> 0, guarantee_unit |-> S_DAYS,
     guarantee_end_date |-> S_NA_SLASH, receipt_relative_path |-> path]

\* bodies of POST /api/import/json that have the two required keys: two items
\* that share a receipt, no next_id
ImportMulti ==
    [receipts |-> << MkReceipt(RG(1), RelUpload0) >>,
     items |-> << MkItem(1, RG(1), RelUpload0), MkItem(2, RG(1), RelUpload0) >>]
\* an item whose path is not its receipt's, an item of a group without receipt,
\* and two receipts of one group id
ImportBroken ==
    [receipts |-> << MkReceipt(RG(1), RelUpload0), MkReceipt(RG(1), <<"q">> \o S_PDF) >>,
     items |-> << MkItem(1, RG(1), <<"q">> \o S_PDF), MkItem(2, RG(7), RelUpload0) >>,
     next_id |-> 3]
\* bodies of PUT /api/item/<id>
UpdBrandA == [brand |-> S_a]
UpdBrandDot == [brand |-> S_DOT]
UpdProjectUp == [project |-> S_DOTDOT]
UpdGuarantee == [guarantee_duration |-> 1, guarantee_unit |-> S_MONTHS]
\* one guarantee field alone
UpdDuration == [guarantee_duration |-> 2]
UpdUnit == [guarantee_unit |-> S_YEARS]
UpdAll ==
    [brand |-> S_a, model |-> <<"m">>, location |-> <<"l">>, project |-> <<"p">>,
     users |-> << <<"u">> >>, shop |-> S_w, purchase_date |-> D_FEB29,
     documentation |-> S_w, guarantee_duration |-> 1, guarantee_unit |-> S_YEARS]
UpdateBodies == {UpdBrandA, UpdBrandDot, UpdProjectUp, UpdGuarantee, UpdAll}

\* values of the query parameter of GET /api/file
FileQueries ==
    { RelUpload0,
      RelEscape,
      JoinWith(<< S_DOTDOT, S_BX, S_s >>, S_SLASH),
      JoinWith(<< S_DOTDOT, S_BX, S_w >>, S_SLASH),
      S_SLASH \o JoinWith(<< S_ETC, S_PASSWD >>, S_SLASH) }

(***************************************************************************)
(* State                                                                   *)
(***************************************************************************)
VARIABLES
    fs,        \* the files and directories on disk, data file and backups apart
    dataFile,  \* data/data.json
    backups,   \* data/backups/data_backup_<ts>.json
    now,       \* the wall clock, in seconds
    ops,       \* handlers run so far
    resp,      \* the last request and the response it got
    lock,      \* data_lock: the thread that holds it, or "free"
    cycle      \* where each thread stands in its load-mutate-save cycle

vars == <<fs, dataFile, backups, now, ops, resp, lock, cycle>>

\* the thread that serves the requests, one at a time (HTTPServer), and the
\* thread of the integrity scan
Threads == {"handler", "worker"}
\* a thread outside every cycle
IdleCycle == [pc |-> "idle", req |-> "none", data |-> EmptyDoc]

Resp(op, arg, upd, status, err, name, fault) ==
    [op |-> op, arg |-> arg, upd |-> upd, status |-> status, err |-> err,
     name |-> name, fault |-> fault]

\* the directories the module creates when it is imported, next to what the
\* machine holds outside the storage root
Init ==
    /\ fs = [files |-> { << S_ETC, S_PASSWD >>, << S_BX, S_s >> },
             dirs |-> { <<>>, << S_ETC >>, << S_BX >>, BASE_DIR, DATA_DIR,
                        RECEIPTS_DIR, BACKUP_DIR }]
    /\ dataFile = FileMissing
    /\ backups = {}
    /\ now = 0
    /\ ops = 0
    /\ resp = Resp("none", 0, <<>>, 0, "", <<>>, "none")
    /\ lock = "free"
    /\ cycle = [t \in Threads |-> IdleCycle]

\* time passes between two requests
Tick ==
    /\ ops < MaxOps
    /\ now < MaxClock
    /\ now' = now + 1
    /\ UNCHANGED <<fs, dataFile, backups, ops, resp>>
    /\ UNCHANGED <<lock, cycle>>

(***************************************************************************)
(* PUT /api/item/<id>                                                      *)
(***************************************************************************)
\* next((i for i in data["items"] if i["id"] == item_id), None), as an index
ItemIndex(data, item_id) ==
    LET hit == {i \in 1..Len(data.items) : data.items[i].id = item_id}
    IN  IF hit = {} THEN 0 ELSE SetMin(hit)
ReceiptIndex(data, rg) ==
    LET hit == {j \in 1..Len(data.receipts) : data.receipts[j].receipt_group_id = rg}
    IN  IF hit = {} THEN 0 ELSE SetMin(hit)
\* len([i for i in data["items"] if i["receipt_group_id"] == rg])
GroupSize(data, rg) ==
    Cardinality({i \in 1..Len(data.items) : data.items[i].receipt_group_id = rg})

PathFields ==
    {"brand", "model", "location", "project", "users", "shop", "purchase_date",
     "documentation"}

Upd(updates, field, old) == IF field \in DOMAIN updates THEN updates[field] ELSE old

\* the receipt after lines 613-631
UpdatedReceipt(receipt, updates) ==
    [receipt EXCEPT !.shop = Upd(updates, "shop", @),
                    !.purchase_date = Upd(updates, "purchase_date", @),
                    !.documentation = Upd(updates, "documentation", @)]

\* lines 639-643
WithEndDate(it, receipt1) ==
    [it EXCEPT !.guarantee_end_date =
        calculate_guarantee_end_date(receipt1.purchase_date, it.guarantee_duration,
                                     it.guarantee_unit)]
\* the item after lines 603-643: the end date is recomputed on every update
UpdatedItem(item, receipt1, updates) ==
    WithEndDate([item EXCEPT !.brand = Upd(updates, "brand", @),
                             !.model = Upd(updates, "model", @),
                             !.location = Upd(updates, "location", @),
                             !.project = Upd(updates, "project", @),
                             !.users = Upd(updates, "users", @),
                             !.guarantee_duration = Upd(updates, "guarantee_duration", @),
                             !.guarantee_unit = Upd(updates, "guarantee_unit", @)],
                receipt1)

\* a relocation decided without looking at the size of the group
NeedsMove_IgnoringMulti(is_multi, updates) == (DOMAIN updates \cap PathFields) # {}
\* a relocation decided for every field, those of the guarantee included
NeedsMove_AnyField(is_multi, updates) == ~is_multi /\ DOMAIN updates # {}
\* lines 587-631: needs_move
NeedsMove(is_multi, updates) == ~is_multi /\ (DOMAIN updates \cap PathFields) # {}

\* rel = f"{new_dir.name}/{new_name}"
RelOf(new_dir, new_name) == PathName(new_dir) \o S_SLASH \o new_name

\* the outcome of lines 645-673: kind is "skip" (no relocation), "crash" (mkdir
\* raises and nothing catches it), "collision", "move_failed" or "moved"
Outcome(kind, f, item, receipt, name) ==
    [kind |-> kind, fs |-> f, item |-> item, receipt |-> receipt, name |-> name]

\* lines 658-673, new_dir made
MoveTo(f1, item, receipt, fault, old_path, new_path, new_name, rel) ==
    IF new_path # old_path /\ (fault = "move" \/ ~RenameOk(f1, old_path, new_path))
    THEN Outcome("move_failed", f1, item, receipt, <<>>)
    ELSE Outcome("moved",
                 TryRmdirFs(IF new_path # old_path
                            THEN RenameFs(f1, old_path, new_path) ELSE f1,
                            PathParent(old_path)),
                 [item EXCEPT !.receipt_relative_path = rel],
                 [receipt EXCEPT !.receipt_filename = new_name,
                                 !.receipt_relative_path = rel],
                 new_name)

\* a relocation that does not look whether the destination is taken
RelocateTo_NoCollisionCheck(f, item, receipt, fault, old_path, new_dir, new_name) ==
    IF ~MkdirOk(f, new_dir) THEN Outcome("crash", f, item, receipt, <<>>)
    ELSE MoveTo(MkdirFs(f, new_dir), item, receipt, fault, old_path,
                PathJoin(new_dir, new_name), new_name, RelOf(new_dir, new_name))
\* a collision test that takes the file's own place for an occupied one
RelocateTo_SamePathCollides(f, item, receipt, fault, old_path, new_dir, new_name) ==
    IF ~MkdirOk(f, new_dir) THEN Outcome("crash", f, item, receipt, <<>>)
    ELSE IF PathExists(MkdirFs(f, new_dir), PathJoin(new_dir, new_name))
    THEN Outcome("collision", MkdirFs(f, new_dir), item, receipt, new_name)
    ELSE MoveTo(MkdirFs(f, new_dir), item, receipt, fault, old_path,
                PathJoin(new_dir, new_name), new_name, RelOf(new_dir, new_name))
\* lines 649-656
RelocateTo(f, item, receipt, fault, old_path, new_dir, new_name) ==
    IF ~MkdirOk(f, new_dir) THEN Outcome("crash", f, item, receipt, <<>>)
    ELSE IF PathExists(MkdirFs(f, new_dir), PathJoin(new_dir, new_name))
            /\ PathJoin(new_dir, new_name) # old_path
    THEN Outcome("collision", MkdirFs(f, new_dir), item, receipt, new_name)
    ELSE MoveTo(MkdirFs(f, new_dir), item, receipt, fault, old_path,
                PathJoin(new_dir, new_name), new_name, RelOf(new_dir, new_name))

\* lines 645-648
RelocateFrom(f, item, receipt, fault, old_path) ==
    IF ~PathExists(f, old_path) THEN Outcome("skip", f, item, receipt, <<>>)
    ELSE RelocateTo(f, item, receipt, fault, old_path, get_storage_directory(item),
                    build_single_item_filename(item, receipt, PathSuffix(old_path)))

Relocate(f, item, receipt, is_multi, updates, fault) ==
    IF ~(NeedsMove(is_multi, updates) /\ item.receipt_relative_path # <<>>)
    THEN Outcome("skip", f, item, receipt, <<>>)
    ELSE RelocateFrom(f, item, receipt, fault,
                      PathJoin(BASE_DIR, item.receipt_relative_path))

\* lines 675-678, and the early returns of lines 653-656 and 669-673
PutFinish(r, sv, item_id, updates, fault) ==
    /\ fs' = r.fs
    /\ IF r.kind \in {"crash", "collision", "move_failed"}
       THEN /\ UNCHANGED <<dataFile, backups>>
            /\ resp' = Resp("update", item_id, updates,
                            CASE r.kind = "crash" -> 0
                              [] r.kind = "collision" -> 400
                              [] OTHER -> 500,
                            r.kind, r.name,
                            IF r.kind = "move_failed" /\ fault = "move"
                            THEN "move" ELSE "none")
       ELSE /\ dataFile' = sv.file
            /\ backups' = sv.backups
            /\ resp' = Resp("update", item_id, updates, 200, r.kind, r.name,
                            IF sv.ok THEN "none" ELSE fault)

PutRelocated(data, i, j, r, item_id, updates, fault) ==
    PutFinish(r,
              save_data(dataFile, backups,
                        [data EXCEPT !.items[i] = r.item, !.receipts[j] = r.receipt],
                        now, fault),
              item_id, updates, fault)

\* lines 587-643
PutUpdated(data, i, j, receipt1, item_id, updates, fault) ==
    PutRelocated(data, i, j,
                 Relocate(fs, UpdatedItem(data.items[i], receipt1, updates), receipt1,
                          GroupSize(data, data.items[i].receipt_group_id) > 1,
                          updates, fault),
                 item_id, updates, fault)

\* lines 575-585
PutFound(data, i, j, item_id, updates, fault) ==
    IF i = 0 \/ j = 0
    THEN /\ resp' = Resp("update", item_id, updates, 404, "not_found", <<>>, "none")
         /\ UNCHANGED <<fs, dataFile, backups>>
    ELSE PutUpdated(data, i, j, UpdatedReceipt(data.receipts[j], updates), item_id,
                    updates, fault)

PutLoaded(data, i, item_id, updates, fault) ==
    PutFound(data, i,
             IF i = 0 THEN 0 ELSE ReceiptIndex(data, data.items[i].receipt_group_id),
             item_id, updates, fault)

do_PUT_item(item_id, updates, fault) ==
    /\ ops' = ops + 1
    /\ UNCHANGED now
    /\ PutLoaded(load_data(dataFile), ItemIndex(load_data(dataFile), item_id), item_id,
                 updates, fault)

(***************************************************************************)
(* DELETE /api/item/<id>                                                   *)
(***************************************************************************)
\* a delete that drops the receipt however many items its group has
DeletedDoc_DropsReceipt(data, item_id, rg_id, single) ==
    [data EXCEPT !.receipts = SelectSeq(@, LAMBDA r : r.receipt_group_id # rg_id),
                 !.items = SelectSeq(@, LAMBDA it : it.id # item_id)]
\* a delete that leaves the receipt of the last item behind
DeletedDoc_KeepsReceipt(data, item_id, rg_id, single) ==
    [data EXCEPT !.items = SelectSeq(@, LAMBDA it : it.id # item_id)]
\* lines 723-725: the document without the item, and without its receipt when
\* the item was the only one of its group
DeletedDoc(data, item_id, rg_id, single) ==
    [data EXCEPT !.receipts = IF single
                              THEN SelectSeq(@, LAMBDA r : r.receipt_group_id # rg_id)
                              ELSE @,
                 !.items = SelectSeq(@, LAMBDA it : it.id # item_id)]

do_DELETE_item(item_id, fault) ==
    LET data == load_data(dataFile)
        i == ItemIndex(data, item_id)
    IN  /\ ops' = ops + 1
        /\ UNCHANGED now
        /\ IF i = 0
           THEN /\ resp' = Resp("delete", item_id, <<>>, 404, "not_found", <<>>, "none")
                /\ UNCHANGED <<fs, dataFile, backups>>
           ELSE LET item == data.items[i]
                    rg_id == item.receipt_group_id
                    single == GroupSize(data, rg_id) = 1
                    file_path == PathJoin(BASE_DIR, item.receipt_relative_path)
                    has_file == single /\ item.receipt_relative_path # <<>>
                                /\ PathExists(fs, file_path)
                    unlink_fails == has_file /\ (fault = "unlink" \/ ~PathIsFile(fs, file_path))
                    fs1 == IF has_file
                           THEN TryRmdirFs(UnlinkFs(fs, file_path), PathParent(file_path))
                           ELSE fs
                    data2 == DeletedDoc(data, item_id, rg_id, single)
                    sv == save_data(dataFile, backups, data2, now, fault)
                IN  IF unlink_fails
                    THEN /\ resp' = Resp("delete", item_id, <<>>, 500, "delete_failed", <<>>,
                                         IF fault = "unlink" THEN "unlink" ELSE "none")
                         /\ UNCHANGED <<fs, dataFile, backups>>
                    ELSE /\ fs' = fs1
                         /\ dataFile' = sv.file
                         /\ backups' = sv.backups
                         /\ resp' = Resp("delete", item_id, <<>>, 200, "", <<>>,
                                         IF sv.ok THEN "none" ELSE fault)

(***************************************************************************)
(* POST /api/upload, /api/integrity/check, /api/import/json                *)
(***************************************************************************)
\* lines 459-467: the name the uploaded file is saved under
SavedName(filename, t) ==
    LET name == PathName(PathParts(filename))
        ext == IF NameSuffix(name) = <<>> THEN S_BIN ELSE LowerStr(NameSuffix(name))
        safe_base == sanitize_filename(NameStem(name), 80)
    IN  TsStr(t) \o <<"_">> \o safe_base \o ext

\* lines 470-485: what the receipt takes from the OCR step
OcrData(ocr) ==
    IF ocr = "raise" THEN [shop |-> S_NA_SLASH, purchase_date |-> S_NA_SLASH]
    ELSE [shop |-> S_s, purchase_date |-> Today]

\* an upload that generates the group id of its item after the receipt is
\* appended
UploadedDoc_Regenerated(data, saved_name, rel_path, ocr) ==
    LET receipt == [receipt_group_id |-> generate_receipt_group_id(data),
                    shop |-> OcrData(ocr).shop,
                    purchase_date |-> OcrData(ocr).purchase_date,
                    documentation |-> S_NA_SLASH, receipt_filename |-> saved_name,
                    receipt_relative_path |-> rel_path]
        data1 == [data EXCEPT !.receipts = Append(@, receipt)]
        item == [id |-> data.next_id,
                 receipt_group_id |-> generate_receipt_group_id(data1),
                 brand |-> S_NA_SLASH,
                 model |-> S_NA_SLASH, location |-> S_NA_SLASH, users |-> <<>>,
                 project |-> S_NA_SLASH, guarantee_duration |-> 0,
                 guarantee_unit |-> S_DAYS, guarantee_end_date |-> S_NA_SLASH,
                 receipt_relative_path |-> rel_path]
    IN  [data1 EXCEPT !.items = Append(@, item), !.next_id = data.next_id + 1]
\* lines 488-517: the receipt and its single item appended to the document
UploadedDoc(data, saved_name, rel_path, ocr) ==
    LET rg_id == generate_receipt_group_id(data)
        receipt == [receipt_group_id |-> rg_id, shop |-> OcrData(ocr).shop,
                    purchase_date |-> OcrData(ocr).purchase_date,
                    documentation |-> S_NA_SLASH, receipt_filename |-> saved_name,
                    receipt_relative_path |-> rel_path]
        item == [id |-> data.next_id, receipt_group_id |-> rg_id, brand |-> S_NA_SLASH,
                 model |-> S_NA_SLASH, location |-> S_NA_SLASH, users |-> <<>>,
                 project |-> S_NA_SLASH, guarantee_duration |-> 0,
                 guarantee_unit |-> S_DAYS, guarantee_end_date |-> S_NA_SLASH,
                 receipt_relative_path |-> rel_path]
    IN  [data EXCEPT !.receipts = Append(@, receipt),
                     !.items = Append(@, item),
                     !.next_id = data.next_id + 1]

do_POST_upload(length, filename, ocr, fault) ==
    LET upload_dir == RECEIPTS_DIR \o << S_UPLOADS >>
        saved_name == SavedName(filename, now)
        saved_path == upload_dir \o << saved_name >>
        rel_path == JoinWith(SubSeq(saved_path, Len(BASE_DIR) + 1, Len(saved_path)), S_SLASH)
        fs1 == MkdirFs(fs, upload_dir)
        data == load_data(dataFile)
        item_id == data.next_id
        data2 == UploadedDoc(data, saved_name, rel_path, ocr)
        sv == save_data(dataFile, backups, data2, now, fault)
    IN  /\ ops' = ops + 1
        /\ UNCHANGED now
        /\ IF length = 0 \/ length > max_len
           THEN /\ resp' = Resp("upload", length, <<>>, 400, "invalid", <<>>, "none")
                /\ UNCHANGED <<fs, dataFile, backups>>
           ELSE IF ~MkdirOk(fs, upload_dir) \/ ~WriteOk(fs1, saved_path)
           THEN /\ resp' = Resp("upload", length, <<>>, 0, "crash", <<>>, "none")
                /\ fs' = fs1
                /\ UNCHANGED <<dataFile, backups>>
           ELSE /\ fs' = WriteFs(fs1, saved_path)
                /\ dataFile' = sv.file
                /\ backups' = sv.backups
                /\ resp' = Resp("upload", item_id, <<>>, 200, ocr, saved_name,
                                IF sv.ok THEN "none" ELSE fault)

do_POST_integrity_check(fault) ==
    LET data == load_data(dataFile)
        issues == verify_file_integrity(fs, data)
        sv == save_data(dataFile, backups, WithIssues(data, issues), now, fault)
    IN  /\ ops' = ops + 1
        /\ dataFile' = sv.file
        /\ backups' = sv.backups
        /\ resp' = Resp("check", Len(issues), <<>>, 200, "", <<>>,
                        IF sv.ok THEN "none" ELSE fault)
        /\ UNCHANGED <<fs, now>>

\* a body without the key "items"
ImportNoItems == [receipts |-> <<>>]

\* `key in imported` of lines 544 and 549: a key of an object, an element of
\* an array
HasKey(v, k) ==
    IF IsArray(v) THEN \E i \in 1..Len(v.array) : v.array[i] = k ELSE k \in DOMAIN v
\* line 550; on an array the assignment raises TypeError
WithNextId(imported) ==
    IF HasKey(imported, "next_id") THEN imported
    ELSE [k \in DOMAIN imported \cup {"next_id"} |->
             IF k = "next_id" THEN MaxIdPlusOne(imported.items) ELSE imported[k]]

do_POST_import(imported, fault) ==
    LET sv == save_data(dataFile, backups, WithNextId(imported), now, fault)
    IN  /\ ops' = ops + 1
        /\ UNCHANGED <<fs, now>>
        /\ IF ~HasKey(imported, "receipts") \/ ~HasKey(imported, "items")
           THEN /\ resp' = Resp("import", imported, <<>>, 400, "invalid", <<>>, "none")
                /\ UNCHANGED <<dataFile, backups>>
           ELSE IF IsArray(imported) /\ ~HasKey(imported, "next_id")
           THEN /\ resp' = Resp("import", imported, <<>>, 0, "crash", <<>>, "none")
                /\ UNCHANGED <<dataFile, backups>>
           ELSE /\ dataFile' = sv.file
                /\ backups' = sv.backups
                /\ resp' = Resp("import", imported, <<>>, 200, "", <<>>,
                                IF sv.ok THEN "none" ELSE fault)

(***************************************************************************)
(* GET /api/file?path=...                                                  *)
(***************************************************************************)
\* the containment test without the separator after the root
InsideBase_NoSeparator(target) ==
    \/ StartsWith(PathStr(target), PathStr(Resolve(BASE_DIR)))
    \/ target = Resolve(BASE_DIR)
\* line 394: the containment test on the resolved target
InsideBase(target) ==
    \/ StartsWith(PathStr(target), PathStr(Resolve(BASE_DIR)) \o S_SLASH)
    \/ target = Resolve(BASE_DIR)

do_GET_file(rel) ==
    LET target == Resolve(PathJoin(BASE_DIR, rel))
    IN  /\ resp' = IF ~InsideBase(target)
                   THEN Resp("file", rel, <<>>, 403, "forbidden", <<>>, "none")
                   ELSE IF ~PathIsFile(fs, target)
                   THEN Resp("file", rel, <<>>, 404, "not_found", <<>>, "none")
                   ELSE Resp("file", rel, <<>>, 200, "", target, "none")
        /\ ops' = ops + 1
        /\ UNCHANGED <<fs, dataFile, backups, now>>

(***************************************************************************)
(* The system                                                              *)
(***************************************************************************)
\* the ids a request may name: those of the document and one that is unknown
RequestIds ==
    LET data == load_data(dataFile)
    IN  {data.items[i].id : i \in 1..Len(data.items)} \cup {0}

\* the requests of the model
UploadRequests ==
    { [length |-> 1024, ocr |-> "ok"],
      [length |-> 1024, ocr |-> "raise"],
      [length |-> 0, ocr |-> "ok"],
      [length |-> max_len + 1, ocr |-> "ok"] }
ImportBodies == {ImportMulti, ImportBroken, ImportNoItems}

Upload ==
    /\ ops < MaxOps
    /\ \E q \in UploadRequests, n \in UploadNames :
           do_POST_upload(q.length, n, q.ocr, "none")
    /\ UNCHANGED <<lock, cycle>>
Update ==
    /\ ops < MaxOps
    /\ \E id \in RequestIds, u \in UpdateBodies :
           /\ id = 0 => u = UpdBrandA
           /\ do_PUT_item(id, u, "none")
    /\ UNCHANGED <<lock, cycle>>
Delete ==
    /\ ops < MaxOps
    /\ \E id \in RequestIds : do_DELETE_item(id, "none")
    /\ UNCHANGED <<lock, cycle>>
Import ==
    /\ ops < MaxOps
    /\ \E d \in ImportBodies : do_POST_import(d, "none")
    /\ UNCHANGED <<lock, cycle>>
Check ==
    /\ ops < MaxOps
    /\ do_POST_integrity_check("none")
    /\ UNCHANGED <<lock, cycle>>
GetFile ==
    /\ ops < MaxOps
    /\ \E q \in FileQueries : do_GET_file(q)
    /\ UNCHANGED <<lock, cycle>>

\* the system on a disk that does not fail
Next == Tick \/ Upload \/ Update \/ Delete \/ Import \/ Check \/ GetFile

Spec == Init /\ [][Next]_vars

(***************************************************************************)
(* The system on a disk that may fail: a request is struck by one I/O      *)
(* fault, shutil.move ("move"), unlink ("unlink"), shutil.copy2 of the     *)
(* backup ("backup") or the write of the data file ("write")               *)
(***************************************************************************)
SaveFaults == {"backup", "write"}
\* a fault is drawn only where it strikes
Struck(fault) == resp'.fault = fault

UploadFaulty ==
    /\ ops < MaxOps
    /\ \E n \in UploadNames, f \in SaveFaults :
           do_POST_upload(1024, n, "ok", f) /\ Struck(f)
    /\ UNCHANGED <<lock, cycle>>
UpdateFaulty ==
    /\ ops < MaxOps
    /\ \E id \in RequestIds, f \in SaveFaults \cup {"move"} :
           do_PUT_item(id, UpdBrandA, f) /\ Struck(f)
    /\ UNCHANGED <<lock, cycle>>
DeleteFaulty ==
    /\ ops < MaxOps
    /\ \E id \in RequestIds, f \in SaveFaults \cup {"unlink"} :
           do_DELETE_item(id, f) /\ Struck(f)
    /\ UNCHANGED <<lock, cycle>>
ImportFaulty ==
    /\ ops < MaxOps
    /\ \E f \in SaveFaults : do_POST_import(ImportMulti, f) /\ Struck(f)
    /\ UNCHANGED <<lock, cycle>>
CheckFaulty ==
    /\ ops < MaxOps
    /\ \E f \in SaveFaults : do_POST_integrity_check(f) /\ Struck(f)
    /\ UNCHANGED <<lock, cycle>>

NextIO ==
    \/ Next
    \/ UploadFaulty \/ UpdateFaulty \/ DeleteFaulty \/ ImportFaulty \/ CheckFaulty

SpecIO == Init /\ [][NextIO]_vars

(***************************************************************************)
(* Uploads and updates alone, over one request more: two receipts uploaded *)
(* at different seconds and updated towards the same name                  *)
(***************************************************************************)
RelocTick ==
    /\ ops < MaxRelocOps
    /\ now < MaxClock
    /\ now' = now + 1
    /\ UNCHANGED <<fs, dataFile, backups, ops, resp>>
    /\ UNCHANGED <<lock, cycle>>
RelocUpload ==
    /\ ops < MaxRelocOps
    /\ \E n \in UploadNames : do_POST_upload(1024, n, "ok", "none")
    /\ UNCHANGED <<lock, cycle>>
RelocUpdate ==
    /\ ops < MaxRelocOps
    /\ \E id \in RequestIds \ {0}, u \in {UpdBrandA, UpdAll, UpdDuration, UpdUnit} :
           do_PUT_item(id, u, "none")
    /\ UNCHANGED <<lock, cycle>>

NextReloc == RelocTick \/ RelocUpload \/ RelocUpdate

SpecReloc == Init /\ [][NextReloc]_vars

(***************************************************************************)
(* Saves alone: save_data called again and again with a document that      *)
(* differs from the one on disk, or that differs from it in                *)
(* integrity_issues only. The clock advances only after a save, and only   *)
(* the first MaxBurstClock seconds take more than one save, and the saves  *)
(* of the integrity scan: the names of the backups depend on nothing else. *)
(***************************************************************************)
\* the n-th document saved: it differs from every other one in next_id
BkDoc(n) == [EmptyDoc EXCEPT !.next_id = n]
\* a save fell in the current second
SavedThisSecond == resp.op = "save" /\ resp.arg = now

BkTick ==
    /\ ops < MaxSaves
    /\ now < MaxBkClock
    /\ SavedThisSecond
    /\ now' = now + 1
    /\ UNCHANGED <<fs, dataFile, backups, ops, resp>>
    /\ UNCHANGED <<lock, cycle>>
BkSave ==
    /\ ops < MaxSaves
    /\ SavedThisSecond => now < MaxBurstClock
    /\ dataFile' = save_data(dataFile, backups, BkDoc(ops + 1), now, "none").file
    /\ backups' = save_data(dataFile, backups, BkDoc(ops + 1), now, "none").backups
    /\ ops' = ops + 1
    /\ resp' = Resp("save", now, <<>>, 200, "", <<>>, "none")
    /\ UNCHANGED <<fs, now>>
    /\ UNCHANGED <<lock, cycle>>
\* the save of the integrity scan: the document on disk with its findings
BkRescan ==
    /\ now < MaxBurstClock
    /\ dataFile.st = "json"
    /\ "integrity_issues" \notin DOMAIN dataFile.doc
    /\ dataFile' = save_data(dataFile, backups, WithIssues(dataFile.doc, <<>>), now,
                             "none").file
    /\ backups' = save_data(dataFile, backups, WithIssues(dataFile.doc, <<>>), now,
                            "none").backups
    /\ UNCHANGED <<fs, now, ops, resp>>
    /\ UNCHANGED <<lock, cycle>>

NextBackups == BkTick \/ BkSave \/ BkRescan

SpecBackups == Init /\ [][NextBackups]_vars

(***************************************************************************)
(* The two threads and data_lock: the handler thread serves one request at *)
(* a time (HTTPServer), the worker thread runs the integrity scan.  Each   *)
(* step is one statement group of a cycle: take the lock, load, mutate the *)
(* document and move the file, save, give the lock back.  The steps of the *)
(* two threads interleave freely.                                          *)
(***************************************************************************)
\* the requests of the handler thread that load or save the document
LockRequests == {"data", "upload", "update", "delete", "import"}
\* the item the update and the delete are about
LockItemId == 1
LockUploadPath == RECEIPTS_DIR \o << S_UPLOADS, SavedName(<<"r">> \o S_PDF, now) >>

\* `with data_lock:` waits until no thread holds the lock
CanAcquire_NoWait(t) == TRUE
CanAcquire(t) == lock = "free"

\* what the statements between load and save leave behind
CycleStep(f, data, pc) == [fs |-> f, data |-> data, pc |-> pc]

\* lines 645-673
LockRelocated(data, i, j, r) ==
    IF r.kind \in {"crash", "collision", "move_failed"}
    THEN CycleStep(r.fs, data, "leave")
    ELSE CycleStep(r.fs, [data EXCEPT !.items[i] = r.item, !.receipts[j] = r.receipt],
                   "worked")
\* lines 575-643
LockUpdated(f, data, i, j, updates) ==
    IF i = 0 \/ j = 0 THEN CycleStep(f, data, "leave")
    ELSE LockRelocated(data, i, j,
             Relocate(f, UpdatedItem(data.items[i],
                                     UpdatedReceipt(data.receipts[j], updates), updates),
                      UpdatedReceipt(data.receipts[j], updates),
                      GroupSize(data, data.items[i].receipt_group_id) > 1,
                      updates, "none"))
\* lines 698-725
LockUnlinked(f, data, item, single, file_path) ==
    IF single /\ item.receipt_relative_path # <<>> /\ PathExists(f, file_path)
    THEN IF ~PathIsFile(f, file_path) THEN CycleStep(f, data, "leave")
         ELSE CycleStep(TryRmdirFs(UnlinkFs(f, file_path), PathParent(file_path)),
                        DeletedDoc(data, item.id, item.receipt_group_id, single),
                        "worked")
    ELSE CycleStep(f, DeletedDoc(data, item.id, item.receipt_group_id, single), "worked")
LockDeleted(f, data, i) ==
    IF i = 0 THEN CycleStep(f, data, "leave")
    ELSE LockUnlinked(f, data, data.items[i],
                      GroupSize(data, data.items[i].receipt_group_id) = 1,
                      PathJoin(BASE_DIR, data.items[i].receipt_relative_path))

\* the statements of each cycle between its load and its save
LockWorked(req, f, data) ==
    CASE req = "scan" ->
           CycleStep(f, WithIssues(data, verify_file_integrity(f, data)), "worked")
      [] req = "data" ->
           CycleStep(f, WithIssues(data, verify_file_integrity(f, data)), "leave")
      [] req = "upload" ->
           CycleStep(f, UploadedDoc(data, LockUploadPath[Len(LockUploadPath)],
                                    JoinWith(SubSeq(LockUploadPath, Len(BASE_DIR) + 1,
                                                    Len(LockUploadPath)), S_SLASH),
                                    "ok"),
                     "worked")
      [] req = "update" ->
           LockUpdated(f, data, ItemIndex(data, LockItemId),
                       IF ItemIndex(data, LockItemId) = 0 THEN 0
                       ELSE ReceiptIndex(data,
                                data.items[ItemIndex(data, LockItemId)].receipt_group_id),
                       UpdBrandA)
      [] req = "delete" -> LockDeleted(f, data, ItemIndex(data, LockItemId))
      [] OTHER -> CycleStep(f, data, "worked")

\* a thread comes to its `with data_lock:`; the upload has written its file
\* before (line 466), the worker has slept (line 207)
LockBegin ==
    /\ ops < MaxLockOps
    /\ \E t \in Threads :
         /\ cycle[t].pc = "idle"
         /\ \E req \in IF t = "worker" THEN {"scan"} ELSE LockRequests :
              /\ cycle' = [cycle EXCEPT ![t] = [pc |-> "wait", req |-> req,
                                                 data |-> EmptyDoc]]
              /\ fs' = IF req = "upload"
                       THEN WriteFs(MkdirFs(fs, PathParent(LockUploadPath)), LockUploadPath)
                       ELSE fs
    /\ ops' = ops + 1
    /\ UNCHANGED <<dataFile, backups, now, resp, lock>>
LockAcquire ==
    /\ \E t \in Threads :
         /\ cycle[t].pc = "wait"
         /\ CanAcquire(t)
         /\ lock' = t
         /\ cycle' = [cycle EXCEPT ![t].pc = "locked"]
    /\ UNCHANGED <<fs, dataFile, backups, now, ops, resp>>
\* data = load_data(); the import has read its document from the request
LockLoad ==
    /\ \E t \in Threads :
         /\ cycle[t].pc = "locked"
         /\ cycle' = [cycle EXCEPT ![t].pc = IF cycle[t].req = "import" THEN "worked"
                                             ELSE "loaded",
                                   ![t].data = IF cycle[t].req = "import" THEN ImportMulti
                                               ELSE load_data(dataFile)]
    /\ UNCHANGED <<fs, dataFile, backups, now, ops, resp, lock>>
LockWork ==
    /\ \E t \in Threads :
         /\ cycle[t].pc = "loaded"
         /\ fs' = LockWorked(cycle[t].req, fs, cycle[t].data).fs
         /\ cycle' = [cycle EXCEPT
                        ![t].pc = LockWorked(cycle[t].req, fs, cycle[t].data).pc,
                        ![t].data = LockWorked(cycle[t].req, fs, cycle[t].data).data]
    /\ UNCHANGED <<dataFile, backups, now, ops, resp, lock>>
LockSave ==
    /\ \E t \in Threads :
         /\ cycle[t].pc = "worked"
         /\ dataFile' = save_data(dataFile, backups, cycle[t].data, now, "none").file
         /\ backups' = save_data(dataFile, backups, cycle[t].data, now, "none").backups
         /\ cycle' = [cycle EXCEPT ![t].pc = "saved"]
    /\ UNCHANGED <<fs, now, ops, resp, lock>>
\* the end of the `with` block, reached after the save or by an early return
LockRelease ==
    /\ \E t \in Threads :
         /\ cycle[t].pc \in {"saved", "leave"}
         /\ lock' = "free"
         /\ cycle' = [cycle EXCEPT ![t] = IdleCycle]
    /\ UNCHANGED <<fs, dataFile, backups, now, ops, resp>>

NextLock == LockBegin \/ LockAcquire \/ LockLoad \/ LockWork \/ LockSave \/ LockRelease
SpecLock == Init /\ [][NextLock]_vars

(***************************************************************************)
(* The two threads for ever: the worker wakes again after every cycle, the *)
(* handler serves a bounded number of requests, and a cycle may raise      *)
(* between its load and its save.  A step of a thread that stays possible  *)
(* is taken, and a thread that waits at `with data_lock:` gets the lock if *)
(* the lock is free again and again.  The statements between load and save *)
(* end, by LockWork or LockRaise: no thread stays there for ever, which is *)
(* what weak fairness of LockWork says, LockWork being possible exactly    *)
(* there.                                                                  *)
(***************************************************************************)
\* a request comes to the handler thread
HandlerBegin ==
    /\ ops < MaxLiveOps
    /\ cycle["handler"].pc = "idle"
    /\ \E req \in LockRequests :
         /\ cycle' = [cycle EXCEPT !["handler"] = [pc |-> "wait", req |-> req,
                                                   data |-> EmptyDoc]]
         /\ fs' = IF req = "upload"
                  THEN WriteFs(MkdirFs(fs, PathParent(LockUploadPath)), LockUploadPath)
                  ELSE fs
    /\ ops' = ops + 1
    /\ UNCHANGED <<dataFile, backups, now, resp, lock>>
\* lines 206-209: time.sleep(30) returns and the worker comes to its
\* `with data_lock:`
WorkerWake ==
    /\ cycle["worker"].pc = "idle"
    /\ cycle' = [cycle EXCEPT !["worker"] = [pc |-> "wait", req |-> "scan",
                                             data |-> EmptyDoc]]
    /\ UNCHANGED <<fs, dataFile, backups, now, ops, resp, lock>>
\* a statement between the load and the save raises
LockRaise ==
    /\ \E t \in Threads :
         /\ cycle[t].pc = "loaded"
         /\ cycle' = [cycle EXCEPT ![t].pc = "raised"]
    /\ UNCHANGED <<fs, dataFile, backups, now, ops, resp, lock>>
\* a worker that an exception ends: no try around its cycle
Unwound_WorkerDies(t) == IF t = "worker" THEN [IdleCycle EXCEPT !.pc = "dead"] ELSE IdleCycle
\* where the exception leaves the thread: the worker's `except Exception: pass`
\* (lines 212-213) goes on with the loop, the server goes on with the next
\* request
Unwound(t) == IdleCycle
\* the exception leaves the `with` block, which gives the lock back
LockUnwind ==
    /\ \E t \in Threads :
         /\ cycle[t].pc = "raised"
         /\ lock' = "free"
         /\ cycle' = [cycle EXCEPT ![t] = Unwound(t)]
    /\ UNCHANGED <<fs, dataFile, backups, now, ops, resp>>

NextLive ==
    \/ HandlerBegin \/ WorkerWake \/ LockAcquire \/ LockLoad \/ LockWork \/ LockSave
    \/ LockRelease \/ LockRaise \/ LockUnwind
Fairness ==
    /\ WF_vars(WorkerWake)
    /\ WF_vars(LockLoad) /\ WF_vars(LockSave)
    /\ []<>(\A t \in Threads : cycle[t].pc # "loaded")
    /\ WF_vars(LockRelease) /\ WF_vars(LockUnwind)
    /\ \A t \in Threads : SF_vars(LockAcquire /\ lock' = t)
SpecLive == Init /\ [][NextLive]_vars /\ Fairness

(***************************************************************************)
(* Uploads and deletions alone, over more requests: receipts are uploaded, *)
(* some are deleted, and the next upload is given its group id.            *)
(***************************************************************************)
IdUpload ==
    /\ ops < MaxIdOps
    /\ \E n \in UploadNames : do_POST_upload(1024, n, "ok", "none")
    /\ UNCHANGED <<lock, cycle>>
IdDelete ==
    /\ ops < MaxIdOps
    /\ \E id \in RequestIds \ {0} : do_DELETE_item(id, "none")
    /\ UNCHANGED <<lock, cycle>>

NextIds == IdUpload \/ IdDelete
SpecIds == Init /\ [][NextIds]_vars

(***************************************************************************)
(* Imports alone: bodies that are objects and bodies that are JSON arrays  *)
(***************************************************************************)
ArrayBodies ==
    { JsonArray(<<"receipts", "items", "next_id">>), JsonArray(<<"receipts", "items">>),
      JsonArray(<<"receipts">>) }
ImpTick ==
    /\ ops < MaxImpOps
    /\ now < MaxClock
    /\ now' = now + 1
    /\ UNCHANGED <<fs, dataFile, backups, ops, resp, lock, cycle>>
ImpImport ==
    /\ ops < MaxImpOps
    /\ \E d \in ImportBodies \cup ArrayBodies : do_POST_import(d, "none")
    /\ UNCHANGED <<lock, cycle>>

NextImp == ImpTick \/ ImpImport
SpecImp == Init /\ [][NextImp]_vars

(***************************************************************************)
(* Updates of an imported receipt of two items, over one request more      *)
(***************************************************************************)
UpdImport ==
    /\ ops < MaxUpdOps
    /\ dataFile.st = "missing"
    /\ do_POST_import(ImportMulti, "none")
    /\ UNCHANGED <<lock, cycle>>
UpdUpdate ==
    /\ ops < MaxUpdOps
    /\ \E id \in RequestIds \ {0}, u \in {UpdBrandA, UpdGuarantee, UpdAll} :
           do_PUT_item(id, u, "none")
    /\ UNCHANGED <<lock, cycle>>

NextUpd == UpdImport \/ UpdUpdate
SpecUpd == Init /\ [][NextUpd]_vars

(***************************************************************************)
(* The store from empty: uploads, updates, deletions and integrity scans   *)
(* on a disk that does not fail, without imports                           *)
(***************************************************************************)
StoreTick ==
    /\ ops < MaxStoreOps
    /\ now < MaxClock
    /\ now' = now + 1
    /\ UNCHANGED <<fs, dataFile, backups, ops, resp>>
    /\ UNCHANGED <<lock, cycle>>
StoreUpload ==
    /\ ops < MaxStoreOps
    /\ \E q \in UploadRequests, n \in UploadNames :
           do_POST_upload(q.length, n, q.ocr, "none")
    /\ UNCHANGED <<lock, cycle>>
StoreUpdate ==
    /\ ops < MaxStoreOps
    /\ \E id \in RequestIds, u \in UpdateBodies :
           /\ id = 0 => u = UpdBrandA
           /\ do_PUT_item(id, u, "none")
    /\ UNCHANGED <<lock, cycle>>
StoreDelete ==
    /\ ops < MaxStoreOps
    /\ \E id \in RequestIds : do_DELETE_item(id, "none")
    /\ UNCHANGED <<lock, cycle>>
StoreCheck ==
    /\ ops < MaxStoreOps
    /\ do_POST_integrity_check("none")
    /\ UNCHANGED <<lock, cycle>>

NextStore == StoreTick \/ StoreUpload \/ StoreUpdate \/ StoreDelete \/ StoreCheck
SpecStore == Init /\ [][NextStore]_vars

(***************************************************************************)
(* The functions on their own: a call is drawn with its arguments, the     *)
(* step applies the function and records what it returns.                  *)
(***************************************************************************)
\* the purchase dates: ordinary years, one of them a leap year, and the last
\* two years a datetime can hold
CallYears == {2023, 2024, MAXYEAR - 1, MAXYEAR}
CallDays == {1, 28, 29, 30, 31}
CallUnits == {S_DAYS, S_MONTHS, S_YEARS, <<"w">>}
\* purchase dates strptime rejects: empty, the placeholder, a day that is not
\* in the month, a month by its number
CallBadDates == { <<>>, S_NA_SLASH, <<"2", "0", "2", "3", "-", "F", "e", "b", "-", "3", "0">>,
                  <<"2", "0", "2", "4", "-", "0", "1", "-", "3", "1">> }
EndDateCall(y, m, d, text, duration, unit) ==
    [op |-> "call", fn |-> "end_date", y |-> y, m |-> m, d |-> d, text |-> text,
     duration |-> duration, unit |-> unit, result |-> <<>>]
EndDateCalls ==
    { EndDateCall(y, m, d, strftime([y |-> y, m |-> m, d |-> d], <<"-">>), n, u) :
        y \in CallYears, m \in 1..12, d \in CallDays,
        n \in 0..MaxDuration, u \in CallUnits }
EndDateInputs ==
    {c \in EndDateCalls : ValidDate(c.y, c.m, c.d)}
      \cup { EndDateCall(0, 0, 0, t, n, u) :
               t \in CallBadDates, n \in 0..MaxDuration, u \in CallUnits }

\* the characters of the texts to sanitize, and the texts
CallChars == {"a", "-", " ", "/"}
RECURSIVE TextsOver(_, _)
TextsOver(chars, n) ==
    IF n = 0 THEN { <<>> }
    ELSE TextsOver(chars, n - 1)
           \cup { Append(t, c) : t \in TextsOver(chars, n - 1), c \in chars }
SanitizeInputs ==
    { [op |-> "call", fn |-> "sanitize", text |-> t, max_length |-> n, result |-> <<>>] :
        t \in TextsOver(CallChars, MaxTextLen) \cup {S_NA_SLASH}, n \in 0..MaxArgLen }

\* the data files load_data is called on
LoadFiles ==
    { FileMissing, FileCorrupt, FileScalar, FileArray(<<>>), FileArray(<<"x">>),
      FileArray(<<"next_id">>), FileJson(EmptyDoc), FileJson(ImportMulti),
      FileJson([receipts |-> <<>>, items |-> <<>>]),
      FileJson([receipts |-> << MkReceipt(RG(1), RelUpload0) >>,
                items |-> << MkItem(3, RG(1), RelUpload0), MkItem(2, RG(1), RelUpload0) >>]) }
LoadCall == [op |-> "call", fn |-> "load_data", result |-> <<>>]

\* the stored paths of the items verify_file_integrity is called on: none, a
\* file name, another file name, a directory of the storage root, and a path
\* that leaves the storage root
VerifyPaths == { <<>>, <<"x">>, <<"y">>, RECEIPTS_DIR[2], RelEscape }
VerifyItems ==
    { <<>> } \cup { << MkItem(1, RG(1), p) >> : p \in VerifyPaths }
             \cup { << MkItem(1, RG(1), p), MkItem(2, RG(2), q) >> :
                       p \in VerifyPaths, q \in VerifyPaths }
VerifyFiles ==
    { FileJson([receipts |-> <<>>, items |-> its, next_id |-> Len(its) + 1]) :
        its \in VerifyItems }
\* the disks: each of the two files is there or not
VerifyDisks ==
    { [files |-> f, dirs |-> { <<>>, << S_ETC >>, BASE_DIR, DATA_DIR, RECEIPTS_DIR,
                               BACKUP_DIR }] :
        f \in SUBSET { << S_ETC, S_PASSWD >>, BASE_DIR \o << <<"x">> >> } }
VerifyCall == [op |-> "call", fn |-> "verify", result |-> <<>>]

InitFn ==
    /\ \/ /\ resp \in EndDateInputs \cup SanitizeInputs
          /\ dataFile = FileMissing
          /\ fs = [files |-> {}, dirs |-> { <<>>, BASE_DIR, DATA_DIR, RECEIPTS_DIR, BACKUP_DIR }]
       \/ /\ resp = LoadCall
          /\ dataFile \in LoadFiles
          /\ fs = [files |-> {}, dirs |-> { <<>>, BASE_DIR, DATA_DIR, RECEIPTS_DIR, BACKUP_DIR }]
       \/ /\ resp = VerifyCall
          /\ dataFile \in VerifyFiles
          /\ fs \in VerifyDisks
    /\ backups = {}
    /\ now = 0
    /\ ops = 0
    /\ lock = "free"
    /\ cycle = [t \in Threads |-> IdleCycle]

CallEndDate ==
    /\ resp.op = "call" /\ resp.fn = "end_date"
    /\ resp' = [resp EXCEPT !.op = "return",
                            !.result = calculate_guarantee_end_date(resp.text, resp.duration,
                                                                    resp.unit)]
    /\ UNCHANGED <<fs, dataFile, backups, now, ops, lock, cycle>>
CallSanitize ==
    /\ resp.op = "call" /\ resp.fn = "sanitize"
    /\ resp' = [resp EXCEPT !.op = "return",
                            !.result = sanitize_filename(resp.text, resp.max_length)]
    /\ UNCHANGED <<fs, dataFile, backups, now, ops, lock, cycle>>
CallLoad ==
    /\ resp.op = "call" /\ resp.fn = "load_data"
    /\ resp' = [resp EXCEPT !.op = "return", !.result = load_data(dataFile)]
    /\ UNCHANGED <<fs, dataFile, backups, now, ops, lock, cycle>>

CallVerify ==
    /\ resp.op = "call" /\ resp.fn = "verify"
    /\ resp' = [resp EXCEPT !.op = "return",
                            !.result = verify_file_integrity(fs, load_data(dataFile))]
    /\ UNCHANGED <<fs, dataFile, backups, now, ops, lock, cycle>>

NextFn == CallEndDate \/ CallSanitize \/ CallLoad \/ CallVerify
SpecFn == InitFn /\ [][NextFn]_vars

(***************************************************************************)
(* Properties                                                              *)
(***************************************************************************)
\* the document a handler would load now
Persisted == load_data(dataFile)
\* a path lies in the storage root or under it
UnderRoot(p) == p = BASE_DIR \/ IsPrefixPath(BASE_DIR, p)
\* where a stored relative path points
Located(rel) == Resolve(PathJoin(BASE_DIR, rel))
\* the files the machine holds outside the storage root
OutsideFiles(f) == {q \in f.files : ~UnderRoot(q)}

\* C10: in every reachable persisted document every item's receipt_group_id
\* is the receipt_group_id of some receipt of the same document
C10_NoDanglingGroup ==
    \A i \in 1..Len(Persisted.items) :
        ReceiptIndex(Persisted, Persisted.items[i].receipt_group_id) # 0

\* C9: in every reachable persisted document every item's stored path equals
\* the stored path of the receipt its receipt_group_id refers to
C9_ItemPathIsReceiptPath ==
    \A i \in 1..Len(Persisted.items), j \in 1..Len(Persisted.receipts) :
        Persisted.receipts[j].receipt_group_id = Persisted.items[i].receipt_group_id
            => Persisted.items[i].receipt_relative_path
                   = Persisted.receipts[j].receipt_relative_path

\* C3: in every reachable state every stored relative path of a receipt or an
\* item resolves to a location inside BASE_DIR, and no relocation has put a
\* file outside BASE_DIR
C3_StoredPathsInsideRoot ==
    /\ \A j \in 1..Len(Persisted.receipts) :
           UnderRoot(Located(Persisted.receipts[j].receipt_relative_path))
    /\ \A i \in 1..Len(Persisted.items) :
           UnderRoot(Located(Persisted.items[i].receipt_relative_path))
    /\ OutsideFiles(fs) = { << S_ETC, S_PASSWD >>, << S_BX, S_s >> }

\* C4: GET /api/file answers Forbidden, and serves nothing, for every path that
\* normalizes to a location outside the storage root, whether or not a file
\* exists there
C4_OutsideRootIsForbidden ==
    (resp.op = "file" /\ ~UnderRoot(Located(resp.arg)))
        => (resp.status = 403 /\ resp.name = <<>>)
\* an existing file outside the root was asked for and refused
C4_Witness ==
    /\ resp.op = "file"
    /\ ~UnderRoot(Located(resp.arg))
    /\ PathIsFile(fs, Located(resp.arg))
    /\ resp.status = 403

\* the request the step answers, seen from the state before it: the item it
\* names and the receipt of that item, as indexes into the loaded document
TargetItem == ItemIndex(Persisted, resp'.arg)
TargetReceipt ==
    IF TargetItem = 0 THEN 0
    ELSE ReceiptIndex(Persisted, Persisted.items[TargetItem].receipt_group_id)
TargetGroupSize ==
    IF TargetItem = 0 THEN 0
    ELSE GroupSize(Persisted, Persisted.items[TargetItem].receipt_group_id)
\* the stored path of the item the step names
TargetRel == Persisted.items[TargetItem].receipt_relative_path
\* the directory and the name the update computes for the file of item i of
\* receipt j
DestinationDir(data, i, j, updates) ==
    get_storage_directory(
        UpdatedItem(data.items[i], UpdatedReceipt(data.receipts[j], updates), updates))
DestinationName(data, i, j, updates) ==
    build_single_item_filename(
        UpdatedItem(data.items[i], UpdatedReceipt(data.receipts[j], updates), updates),
        UpdatedReceipt(data.receipts[j], updates),
        PathSuffix(PathJoin(BASE_DIR, data.items[i].receipt_relative_path)))
Destination(data, i, j, updates) ==
    PathJoin(DestinationDir(data, i, j, updates), DestinationName(data, i, j, updates))
TargetDestination == Destination(Persisted, TargetItem, TargetReceipt, resp'.upd)
\* the update is one of a single-item group whose file exists and that
\* computes a destination
SingleItemRelocation ==
    /\ resp'.op = "update"
    /\ TargetItem # 0 /\ TargetReceipt # 0 /\ TargetGroupSize = 1
    /\ (DOMAIN resp'.upd \cap PathFields) # {}
    /\ TargetRel # <<>>
    /\ PathExists(fs, PathJoin(BASE_DIR, TargetRel))

\* C1: an update of a single-item group whose computed destination exists and
\* differs from the current path of the file reports a collision that names
\* the conflicting file, and leaves the files, the directories and the
\* persisted document as they were
C1_CollisionChangesNothing ==
    [][(/\ SingleItemRelocation
        /\ PathExists(fs, TargetDestination)
        /\ TargetDestination # PathJoin(BASE_DIR, TargetRel))
          => /\ resp'.status = 400 /\ resp'.err = "collision"
             /\ resp'.name = PathName(TargetDestination)
             /\ fs' = fs /\ dataFile' = dataFile /\ backups' = backups]_vars
\* an update was refused for a collision while the other file stands there
C1_Witness ==
    /\ resp.op = "update" /\ resp.status = 400 /\ resp.err = "collision"
    /\ \E q \in fs.files : PathName(q) = resp.name /\ UnderRoot(q)
    /\ Len(Persisted.items) = 2

\* the item and its receipt both hold the path rel in the document
Holds(data, item_id, rel) ==
    /\ ItemIndex(data, item_id) # 0
    /\ data.items[ItemIndex(data, item_id)].receipt_relative_path = rel
    /\ ReceiptIndex(data, data.items[ItemIndex(data, item_id)].receipt_group_id) # 0
    /\ data.receipts[ReceiptIndex(data,
           data.items[ItemIndex(data, item_id)].receipt_group_id)].receipt_relative_path
         = rel
\* and the file is where rel points
HeldAt(f, data, item_id, rel) ==
    Holds(data, item_id, rel) /\ PathIsFile(f, Located(rel))
\* the relative path the update writes down for the destination it computes
TargetRecorded ==
    RelOf(DestinationDir(Persisted, TargetItem, TargetReceipt, resp'.upd),
          DestinationName(Persisted, TargetItem, TargetReceipt, resp'.upd))

\* C2: after every outcome of an update (success, collision, move failure,
\* failure of the final save) the relocation is applied in full or not at all:
\* the file is at its old location and the persisted receipt and item hold the
\* old path, or the file is at the new location and both hold the new path
C2_RelocationAllOrNothing ==
    [][(/\ SingleItemRelocation
        /\ HeldAt(fs, Persisted, resp'.arg, TargetRel))
          => \/ HeldAt(fs', Persisted', resp'.arg, TargetRel)
             \/ /\ PathIsFile(fs', TargetDestination)
                /\ Holds(Persisted', resp'.arg, TargetRecorded)]_vars

\* C5: for a single-item group whose file exists and whose computed
\* destination is free, an update that contains brand moves the file to
\* <storage directory of the updated item>/<single-item filename>, and the
\* persisted receipt and item both record that path
C5_BrandUpdateRelocates ==
    [][(/\ SingleItemRelocation
        /\ "brand" \in DOMAIN resp'.upd
        /\ PathIsFile(fs, PathJoin(BASE_DIR, TargetRel))
        /\ ~PathExists(fs, TargetDestination))
          => /\ PathIsFile(fs', TargetDestination)
             /\ ItemIndex(Persisted', resp'.arg) # 0
             /\ HeldAt(fs', Persisted', resp'.arg,
                       Persisted'.items[ItemIndex(Persisted', resp'.arg)]
                           .receipt_relative_path)
             /\ Located(Persisted'.items[ItemIndex(Persisted', resp'.arg)]
                            .receipt_relative_path)
                  = Resolve(TargetDestination)]_vars

\* the stored path and filename of every receipt and the stored path of every
\* item of a document
StoredNames(data) ==
    [receipts |-> [j \in 1..Len(data.receipts) |->
                      << data.receipts[j].receipt_group_id,
                         data.receipts[j].receipt_relative_path,
                         data.receipts[j].receipt_filename >>],
     items |-> [i \in 1..Len(data.items) |->
                   << data.items[i].id, data.items[i].receipt_relative_path >>]]

\* C6: no update of an item of a group that has more than one item, whatever
\* fields it edits, moves, renames or deletes a file or changes the stored
\* path or filename of the receipt or of any item
C6_MultiItemUpdateMovesNothing ==
    [][(resp'.op = "update" /\ TargetGroupSize > 1)
          => /\ fs' = fs
             /\ StoredNames(Persisted') = StoredNames(Persisted)]_vars
\* every field of an item of a two-item group was edited while the file of
\* the group was on disk
C6_Witness ==
    /\ resp.op = "update" /\ resp.status = 200 /\ resp.upd = UpdAll
    /\ ItemIndex(Persisted, resp.arg) # 0
    /\ Persisted.items[ItemIndex(Persisted, resp.arg)].brand = S_a
    /\ GroupSize(Persisted,
                 Persisted.items[ItemIndex(Persisted, resp.arg)].receipt_group_id) > 1
    /\ PathIsFile(fs, Located(Persisted.items[ItemIndex(Persisted, resp.arg)]
                                  .receipt_relative_path))

\* C7: deleting the only item of a group removes that item and its receipt
\* from the persisted document and the file from the disk; if the file cannot
\* be deleted the operation reports an error and the document is unchanged
C7_DeleteOnlyItem ==
    [][(resp'.op = "delete" /\ TargetItem # 0 /\ TargetGroupSize = 1)
          => \/ /\ resp'.status = 200
                /\ ItemIndex(Persisted', resp'.arg) = 0
                /\ ReceiptIndex(Persisted',
                                Persisted.items[TargetItem].receipt_group_id) = 0
                /\ ~PathExists(fs', Located(TargetRel))
             \/ /\ resp'.status = 500
                /\ PathExists(fs, Located(TargetRel))
                /\ dataFile' = dataFile]_vars

\* C8: deleting one item of a group that has several items removes only that
\* item: the receipt, every other item of the document, next_id and the
\* shared file on disk are unchanged
C8_DeleteOneOfSeveral ==
    [][(resp'.op = "delete" /\ TargetGroupSize > 1)
          => /\ resp'.status = 200
             /\ fs' = fs
             /\ Persisted' =
                    [Persisted EXCEPT
                        !.items = SelectSeq(@, LAMBDA it : it.id # resp'.arg)]]_vars
\* one of the two items of a group was deleted: its receipt, the other item
\* and the file are there
C8_Witness ==
    /\ resp.op = "delete" /\ resp.status = 200 /\ resp.arg # 0
    /\ ItemIndex(Persisted, resp.arg) = 0
    /\ Len(Persisted.items) = 1 /\ Len(Persisted.receipts) = 1
    /\ HeldAt(fs, Persisted, Persisted.items[1].id,
              Persisted.receipts[1].receipt_relative_path)

\* C11: item ids are never reused. Uploads hand out next_id and store its
\* successor, so next_id stays ahead of every id ever assigned exactly when no
\* step lowers the next_id a handler would load; and in every document next_id
\* is greater than every item id and no two items share an id
C11_IdsNeverReused ==
    [][/\ Persisted'.next_id >= Persisted.next_id
       /\ \A i \in 1..Len(Persisted'.items) :
              Persisted'.items[i].id < Persisted'.next_id
       /\ \A i, k \in 1..Len(Persisted'.items) :
              i # k => Persisted'.items[i].id # Persisted'.items[k].id]_vars

\* C12: at every point in time no two receipts of the persisted document have
\* the same receipt_group_id
C12_GroupIdsUnique ==
    \A i, k \in 1..Len(Persisted.receipts) :
        i # k => Persisted.receipts[i].receipt_group_id
                     # Persisted.receipts[k].receipt_group_id

\* C14: save_data is all-or-nothing on the live data file: when the backup
\* copy or the write fails, the live file still holds the complete previous
\* document
C14_FailedSaveKeepsLiveFile ==
    [][(resp'.fault \in SaveFaults /\ dataFile.st = "json")
          => dataFile' = dataFile]_vars

\* C15: when the save fails during an upload, an update, a delete or an
\* import, the operation does not answer success
C15_FailedSaveIsReported ==
    [][(resp'.op \in {"upload", "update", "delete", "import"}
        /\ resp'.fault \in SaveFaults)
          => resp'.status # 200]_vars

\* the names of the backup files: one per second of the clock
BackupNames(bk) == {b.ts : b \in bk}
\* the step replaces a readable data file by a document that differs from it
\* in some field other than integrity_issues
GenuineChange ==
    /\ dataFile.st = "json" /\ dataFile'.st = "json"
    /\ DropIssues(dataFile'.doc) # DropIssues(dataFile.doc)

\* C16: saving a document that equals the one on disk in everything except
\* integrity_issues creates no backup and deletes none
C16_UnchangedSaveKeepsBackups ==
    [][(/\ dataFile.st = "json" /\ dataFile'.st = "json"
        /\ DropIssues(dataFile'.doc) = DropIssues(dataFile.doc))
          => backups' = backups]_vars
\* the integrity check wrote its findings into a document that had none, and
\* no backup was made
C16_Witness ==
    /\ resp.op = "check" /\ resp.arg > 0
    /\ dataFile.st = "json"
    /\ "integrity_issues" \in DOMAIN dataFile.doc
    /\ Len(dataFile.doc.integrity_issues) > 0
    /\ backups = {}

\* C17: every save of a document that differs from the one on disk in some
\* field other than integrity_issues produces exactly one new backup file,
\* distinct from every backup that existed before, whatever the timing
C17_ChangedSaveAddsOneBackup ==
    [][GenuineChange
          => Cardinality(BackupNames(backups') \ BackupNames(backups)) = 1]_vars

\* C19: when the OCR step fails during an upload, the upload still succeeds
\* and creates the receipt and the item, the receipt with shop "N/A" and with
\* today's date as purchase_date
C19_OcrFailureDefaults ==
    [][(ops' = ops + 1 /\ resp'.op = "upload" /\ resp'.err = "raise")
          => /\ resp'.status = 200
             /\ ItemIndex(Persisted', resp'.arg) # 0
             /\ Len(Persisted'.receipts) = Len(Persisted.receipts) + 1
             /\ Persisted'.receipts[Len(Persisted'.receipts)].shop = S_NA_SLASH
             /\ Persisted'.receipts[Len(Persisted'.receipts)].purchase_date = Today]_vars

\* C20: for every item of the persisted document guarantee_end_date equals
\* calculate_guarantee_end_date(purchase_date of its receipt, its
\* guarantee_duration, its guarantee_unit)
C20_EndDateIsDerived ==
    \A i \in 1..Len(Persisted.items) :
        ReceiptIndex(Persisted, Persisted.items[i].receipt_group_id) # 0
            => Persisted.items[i].guarantee_end_date
                 = calculate_guarantee_end_date(
                       Persisted.receipts[ReceiptIndex(Persisted,
                           Persisted.items[i].receipt_group_id)].purchase_date,
                       Persisted.items[i].guarantee_duration,
                       Persisted.items[i].guarantee_unit)

\* the smaller of two numbers
Least(a, b) == IF a < b THEN a ELSE b

\* C18: starting from an existing data file and no backups, after n successive
\* saves of a changed document exactly min(n, 20) backups remain, and they are
\* the backups made by the most recent min(n, 20) of those saves. The first
\* save of a behaviour creates the data file, so n is ops - 1, and the backup
\* made by the m-th save holds the document of the save before it
C18_BackupsOfLastSaves ==
    ops >= 1 =>
        /\ Cardinality(backups) = Least(ops - 1, KeepBackups)
        /\ {DropIssues(b.content.doc) : b \in backups}
             = {BkDoc(m - 1) : m \in (ops - Least(ops - 1, KeepBackups) + 1)..ops}


\* a thread between taking data_lock and giving it back
InCycle(t) == cycle[t].pc \in {"locked", "loaded", "worked", "saved", "leave"}

\* C13: every load, mutation and save of the two threads happens while the
\* thread holds data_lock: a thread inside a cycle is the holder of the lock,
\* so at most one cycle is in progress; the document a thread has loaded is
\* still the one on disk when it starts to mutate it; the data file and its
\* backups change only by the save of the holder, and a file is moved or
\* removed only by the holder between its load and its save.
C13_CyclesUnderLock ==
    [][/\ \A t \in Threads : cycle'[t].pc \in {"locked", "loaded", "worked", "saved", "leave"}
                                 => lock' = t
       /\ \A t \in Threads : cycle'[t].pc = "loaded" => cycle'[t].data = Persisted'
       /\ (dataFile' # dataFile \/ backups' # backups)
             => /\ lock # "free" /\ lock' = lock
                /\ cycle[lock].pc = "worked"
       /\ (fs.files \ fs'.files # {})
             => /\ lock # "free" /\ lock' = lock
                /\ cycle[lock].pc = "loaded"]_vars
\* the update has moved its file and not saved yet, the worker waits
C13_Witness ==
    /\ lock = "handler"
    /\ cycle["handler"].req = "update" /\ cycle["handler"].pc = "worked"
    /\ fs.files # {} /\ LockUploadPath \notin fs.files
    /\ cycle["handler"].data # Persisted
    /\ ~InCycle("worker") /\ cycle["worker"].pc = "wait"


\* the call of calculate_guarantee_end_date that has returned, on a purchase
\* date strptime accepts
EndDateReturned(unit) ==
    /\ resp.op = "return" /\ resp.fn = "end_date"
    /\ resp.unit = unit /\ resp.duration >= 1 /\ resp.y > 0
\* the date n calendar months after y-m-d, the day clamped to the month's last
MonthsAfter(y, m, d, n) ==
    [y |-> y + ((m + n - 1) \div 12),
     m |-> ((m + n - 1) % 12) + 1,
     d |-> Least(d, DaysInMonth(y + ((m + n - 1) \div 12), ((m + n - 1) % 12) + 1))]

\* C21: for unit months and a duration d >= 1 the end date is the date d
\* calendar months after the purchase date, the day of month clamped to the
\* last day of the resulting month, whenever that date is one a datetime can
\* hold (its year is at most 9999).
C21_MonthsClamped ==
    (EndDateReturned(S_MONTHS)
       /\ MonthsAfter(resp.y, resp.m, resp.d, resp.duration).y <= MAXYEAR)
        => resp.result = strftime(MonthsAfter(resp.y, resp.m, resp.d, resp.duration), <<"-">>)

\* C22: for unit years and a duration d >= 1 the end date is the last day of
\* the purchase month in the year (purchase year + d), for every purchase day,
\* whenever that year is at most 9999.
C22_YearsLastDay ==
    (EndDateReturned(S_YEARS) /\ resp.y + resp.duration <= MAXYEAR)
        => resp.result = strftime([y |-> resp.y + resp.duration, m |-> resp.m,
                                   d |-> DaysInMonth(resp.y + resp.duration, resp.m)],
                                  <<"-">>)

\* C23: for duration 0 the result is the placeholder "N/A" for every unit and
\* every purchase date, parseable or not; for an unparseable purchase date or
\* an unknown unit the result is the placeholder too (the call returns).
C23_PlaceholderCases ==
    (resp.op = "return" /\ resp.fn = "end_date"
       /\ (resp.duration = 0 \/ resp.y = 0
             \/ resp.unit \notin {S_DAYS, S_MONTHS, S_YEARS}))
        => resp.result = S_NA_SLASH
\* the three cases at once: duration 0 on an unparseable date and an unknown unit
C23_Witness ==
    /\ resp.op = "return" /\ resp.fn = "end_date"
    /\ resp.duration = 0 /\ resp.y = 0 /\ resp.text = S_NA_SLASH
    /\ resp.unit = <<"w">>
    /\ resp.result = S_NA_SLASH


\* C24: load_data returns the empty document when the data file is missing,
\* unreadable, not valid JSON or not a JSON object, and the document with
\* next_id = (maximum item id, 0 if none) + 1 when the file holds an object
\* without next_id.
C24_LoadNeverFails ==
    (resp.op = "return" /\ resp.fn = "load_data")
        => /\ dataFile.st # "json" => resp.result = EmptyDoc
           /\ (dataFile.st = "json" /\ "next_id" \notin DOMAIN dataFile.doc)
                 => /\ DOMAIN resp.result = DOMAIN dataFile.doc \cup {"next_id"}
                    /\ \A k \in DOMAIN dataFile.doc : resp.result[k] = dataFile.doc[k]
                    /\ resp.result.next_id
                          = SetMax({0} \cup {dataFile.doc.items[i].id :
                                               i \in 1..Len(dataFile.doc.items)}) + 1


\* C28: for every text and every maximum length the result of
\* sanitize_filename holds no forbidden character, neither starts nor ends
\* with a hyphen and is at most max_length long, the placeholders included.
C28_SanitizedNames ==
    (resp.op = "return" /\ resp.fn = "sanitize")
        => /\ \A i \in 1..Len(resp.result) : resp.result[i] \notin ForbiddenChars
           /\ resp.result # <<>>
                 => resp.result[1] # "-" /\ resp.result[Len(resp.result)] # "-"
           /\ Len(resp.result) <= resp.max_length


\* the numeric suffixes of the group ids of a document's receipts, their
\* maximum (0 if there are none), and the group ids themselves
Suffixes(doc) ==
    {GroupNumber(doc.receipts[i].receipt_group_id) : i \in 1..Len(doc.receipts)} \ {-1}
TopSuffix(doc) == IF Suffixes(doc) = {} THEN 0 ELSE SetMax(Suffixes(doc))
GroupIds(doc) == {doc.receipts[i].receipt_group_id : i \in 1..Len(doc.receipts)}
\* the document the last changed save replaced: the newest backup
LastBackupDoc ==
    (CHOOSE b \in backups : \A c \in backups : c.ts <= b.ts).content.doc
\* the group ids the last request, a deletion, has freed
FreedIds == GroupIds(LastBackupDoc) \ GroupIds(Persisted)
\* the last request deleted the receipt that held the maximum suffix
DeletedTop ==
    /\ resp.op = "delete" /\ resp.status = 200
    /\ backups # {} /\ FreedIds # {}
    /\ \A g \in FreedIds : GroupNumber(g) = TopSuffix(LastBackupDoc)

\* C29 as stated: an upload is given "RG-" and (the maximum suffix among the
\* receipts, 0 if none) + 1 padded to 4 digits, and an upload that follows the
\* deletion of the receipt with the maximum suffix is given the freed id.
C29_FreedIdGivenAgain ==
    [][(ops' = ops + 1 /\ resp'.op = "upload" /\ resp'.status = 200)
          => /\ Persisted'.receipts[Len(Persisted'.receipts)].receipt_group_id
                  = S_RG \o ZeroPad(TopSuffix(Persisted) + 1, 4)
             /\ DeletedTop
                  => Persisted'.receipts[Len(Persisted'.receipts)].receipt_group_id
                       \in FreedIds]_vars
\* C29 amended: an upload is given "RG-" and (the maximum suffix among the
\* receipts, 0 if none) + 1 padded to 4 digits; an upload that follows the
\* deletion of the receipt with the maximum suffix is given the freed id
\* again when that suffix was one above the largest remaining one.
C29_NextGroupId ==
    [][(ops' = ops + 1 /\ resp'.op = "upload" /\ resp'.status = 200)
          => /\ Persisted'.receipts[Len(Persisted'.receipts)].receipt_group_id
                  = S_RG \o ZeroPad(TopSuffix(Persisted) + 1, 4)
             /\ (DeletedTop /\ \A g \in FreedIds : GroupNumber(g) = TopSuffix(Persisted) + 1)
                  => Persisted'.receipts[Len(Persisted'.receipts)].receipt_group_id
                       \in FreedIds]_vars
\* the second item uploaded holds the group id of the first, which is deleted,
\* next to a receipt uploaded after a gap: RG-0001 given again, and RG-0004
\* after RG-0001 and RG-0003
C29_Witness ==
    /\ resp.op = "upload" /\ resp.status = 200
    /\ \/ /\ Len(Persisted.items) = 1
          /\ Persisted.items[1].id = 2
          /\ Persisted.items[1].receipt_group_id = RG(1)
       \/ /\ GroupIds(Persisted) = {RG(1), RG(3), RG(4)}


C26_ImportReplaces ==
    [][(ops' = ops + 1 /\ resp'.op = "import")
          => IF \/ IsArray(resp'.arg)
                \/ "receipts" \notin DOMAIN resp'.arg
                \/ "items" \notin DOMAIN resp'.arg
             THEN /\ resp'.status # 200
                  /\ dataFile' = dataFile /\ backups' = backups
             ELSE /\ resp'.status = 200
                  /\ \A k \in DOMAIN resp'.arg : Persisted'[k] = resp'.arg[k]
                  /\ DOMAIN Persisted' = DOMAIN resp'.arg \cup {"next_id"}
                  /\ "next_id" \notin DOMAIN resp'.arg
                        => Persisted'.next_id
                             = SetMax({0} \cup {resp'.arg.items[i].id :
                                                  i \in 1..Len(resp'.arg.items)}) + 1]_vars


\* the fields an update may change without being named in it
EndDateFields == {"purchase_date", "guarantee_duration", "guarantee_unit"}
PathFieldsOfRecord == {"receipt_relative_path", "receipt_filename"}
\* a field of a record is as it was, or is one the update may change
FieldKept(old, new, f, upd, moved) ==
    \/ new[f] = old[f]
    \/ f \in upd
    \/ f = "guarantee_end_date" /\ upd \cap EndDateFields # {}
    \/ f \in PathFieldsOfRecord /\ moved

\* C27: an item update leaves as it was every field it does not name, on the
\* item, on its receipt and on every other item and receipt, except
\* guarantee_end_date when purchase_date, guarantee_duration or
\* guarantee_unit is edited and the stored path and file name when the file
\* is moved.
C27_UpdateFrame ==
    [][(ops' = ops + 1 /\ resp'.op = "update" /\ resp'.status = 200)
          => LET i == ItemIndex(Persisted, resp'.arg)
                 j == ReceiptIndex(Persisted, Persisted.items[i].receipt_group_id)
             IN  /\ Len(Persisted'.items) = Len(Persisted.items)
                 /\ Len(Persisted'.receipts) = Len(Persisted.receipts)
                 /\ Persisted'.next_id = Persisted.next_id
                 /\ \A k \in 1..Len(Persisted.items) :
                        k # i => Persisted'.items[k] = Persisted.items[k]
                 /\ \A k \in 1..Len(Persisted.receipts) :
                        k # j => Persisted'.receipts[k] = Persisted.receipts[k]
                 /\ DOMAIN Persisted'.items[i] = DOMAIN Persisted.items[i]
                 /\ \A f \in DOMAIN Persisted.items[i] :
                        FieldKept(Persisted.items[i], Persisted'.items[i], f,
                                  DOMAIN resp'.upd, fs'.files # fs.files)
                 /\ DOMAIN Persisted'.receipts[j] = DOMAIN Persisted.receipts[j]
                 /\ \A f \in DOMAIN Persisted.receipts[j] :
                        FieldKept(Persisted.receipts[j], Persisted'.receipts[j], f,
                                  DOMAIN resp'.upd, fs'.files # fs.files)]_vars

\* C30: a load-scan-save cycle of the integrity scan that meets no fault of
\* its own keeps the receipts, items and next_id of the persisted document and
\* creates no backup file, whatever the state of the data file it starts
\* from.
C30_ScanChangesIssuesOnly ==
    [][(ops' = ops + 1 /\ resp'.op = "check" /\ resp'.fault = "none")
          => /\ DropIssues(Persisted') = DropIssues(Persisted)
             /\ backups' = backups]_vars


\* the item has a stored path, and nothing is at that path taken from the
\* storage root (a path exists when it names a file or a directory)
FileIsMissing(f, it) ==
    /\ it.receipt_relative_path # <<>>
    /\ Resolve(PathJoin(BASE_DIR, it.receipt_relative_path)) \notin f.files \cup f.dirs
\* the issue is the one of the item
IssueOf(issue, it) ==
    /\ issue.id = it.id
    /\ issue.receipt_group_id = it.receipt_group_id
    /\ issue.path = it.receipt_relative_path

\* C31: verify_file_integrity returns exactly one issue, with the item's id,
\* group id and path, for each item that has a non-empty stored path at which
\* nothing exists under the storage root, and no issue for any other item.
C31_OneIssuePerMissingFile ==
    (resp.op = "return" /\ resp.fn = "verify")
        => LET items == dataFile.doc.items
               issues == resp.result
           IN  /\ \A i \in 1..Len(items) :
                      Cardinality({k \in 1..Len(issues) : IssueOf(issues[k], items[i])})
                         = IF FileIsMissing(fs, items[i]) THEN 1 ELSE 0
               /\ \A k \in 1..Len(issues) :
                      \E i \in 1..Len(items) : IssueOf(issues[k], items[i])
\* a call on two items, one whose file is on the disk and one whose file is
\* not, returned the issue of the second
C31_Witness ==
    /\ resp.op = "return" /\ resp.fn = "verify"
    /\ Len(dataFile.doc.items) = 2
    /\ ~FileIsMissing(fs, dataFile.doc.items[1])
    /\ dataFile.doc.items[1].receipt_relative_path # <<>>
    /\ FileIsMissing(fs, dataFile.doc.items[2])
    /\ Len(resp.result) = 1
    /\ resp.result[1].id = 2


\* the fields of the guarantee an update may name
GuaranteeFields == {"guarantee_duration", "guarantee_unit"}
\* the step is an update that names guarantee fields only, of an item that is
\* alone in its group
GuaranteeOnlyUpdate ==
    /\ ops' = ops + 1 /\ resp'.op = "update"
    /\ DOMAIN resp'.upd # {} /\ DOMAIN resp'.upd \subseteq GuaranteeFields
    /\ ItemIndex(Persisted, resp'.arg) # 0
    /\ GroupSize(Persisted,
                 Persisted.items[ItemIndex(Persisted, resp'.arg)].receipt_group_id) = 1

\* C32: an update of the item of a single-item group that names only
\* guarantee_duration and/or guarantee_unit moves and renames no file and
\* changes nothing in the persisted document but guarantee_duration,
\* guarantee_unit and guarantee_end_date of that item.
C32_GuaranteeEditMovesNothing ==
    [][GuaranteeOnlyUpdate
          => LET i == ItemIndex(Persisted, resp'.arg)
             IN  /\ fs' = fs
                 /\ Persisted'.receipts = Persisted.receipts
                 /\ Persisted'.next_id = Persisted.next_id
                 /\ Len(Persisted'.items) = Len(Persisted.items)
                 /\ \A k \in 1..Len(Persisted.items) :
                        k # i => Persisted'.items[k] = Persisted.items[k]
                 /\ DOMAIN Persisted'.items[i] = DOMAIN Persisted.items[i]
                 /\ \A f \in DOMAIN Persisted.items[i] \ (GuaranteeFields \cup {"guarantee_end_date"}) :
                        Persisted'.items[i][f] = Persisted.items[i][f]]_vars
\* an update of the unit alone was answered 200 and changed the end date of
\* an item whose file had been moved to the directory of its brand before
C32_Witness ==
    /\ resp.op = "update" /\ resp.status = 200 /\ resp.upd = UpdUnit
    /\ ItemIndex(Persisted, resp.arg) # 0
    /\ LET it == Persisted.items[ItemIndex(Persisted, resp.arg)]
       IN  /\ GroupSize(Persisted, it.receipt_group_id) = 1
           /\ it.guarantee_unit = S_YEARS
           /\ it.guarantee_duration = 2
           /\ it.guarantee_end_date # S_NA_SLASH
           /\ it.brand = S_a
           /\ PathIsFile(fs, PathJoin(BASE_DIR, it.receipt_relative_path))


\* the number of items of the document that refer to the group
ItemsOf(data, rg) ==
    Cardinality({i \in 1..Len(data.items) : data.items[i].receipt_group_id = rg})
\* the group ids of the receipts of the document
ReceiptGroups(data) ==
    {data.receipts[j].receipt_group_id : j \in 1..Len(data.receipts)}

\* C33: from the empty store, after any uploads, updates and deletions, a
\* receipt is in the persisted document exactly as long as its group has an
\* item: every receipt has an item that refers to it, every item has its
\* receipt, and the delete that removes the last item of a group removes the
\* receipt.
C33_ReceiptLivesWithItems ==
    [][/\ \A rg \in ReceiptGroups(Persisted') : ItemsOf(Persisted', rg) >= 1
       /\ \A i \in 1..Len(Persisted'.items) :
              Persisted'.items[i].receipt_group_id \in ReceiptGroups(Persisted')
       /\ (ops' = ops + 1 /\ resp'.op = "delete" /\ resp'.status = 200)
             => \A rg \in ReceiptGroups(Persisted) :
                   (ItemsOf(Persisted, rg) = 1 /\ ItemsOf(Persisted', rg) = 0)
                       => rg \notin ReceiptGroups(Persisted')]_vars
\* of two uploaded receipts the first was deleted with its only item, and the
\* second is there with its item
C33_Witness ==
    /\ resp.op = "delete" /\ resp.status = 200
    /\ Len(Persisted.receipts) = 1 /\ Len(Persisted.items) = 1
    /\ Persisted.receipts[1].receipt_group_id = RG(2)
    /\ Persisted.items[1].receipt_group_id = RG(2)
    /\ Persisted.next_id = 3


\* C34: from the empty store, on a disk that does not fail and that nothing
\* else changes, after any uploads, updates, deletions and integrity scans
\* every item's stored path names an existing file of the storage root, and a
\* scan made now returns no issue.
C34_StoredPathsExist ==
    /\ \A i \in 1..Len(Persisted.items) :
           /\ Persisted.items[i].receipt_relative_path # <<>>
           /\ PathIsFile(fs, PathJoin(BASE_DIR, Persisted.items[i].receipt_relative_path))
    /\ verify_file_integrity(fs, Persisted) = <<>>


\* C35: from the empty store, after any uploads, updates and deletions, no two
\* receipts of the persisted document record the same stored path, two
\* uploads of one file name within the same second included.
C35_ReceiptPathsDistinct ==
    \A j \in 1..Len(Persisted.receipts), k \in 1..Len(Persisted.receipts) :
        j # k => Persisted.receipts[j].receipt_relative_path
                    # Persisted.receipts[k].receipt_relative_path


\* the step applies again, to the item of a single-item group, the update the
\* request before it applied with success
RepeatedUpdate ==
    /\ resp.op = "update" /\ resp.status = 200
    /\ ops' = ops + 1 /\ resp'.op = "update"
    /\ resp'.arg = resp.arg /\ resp'.upd = resp.upd
    /\ TargetGroupSize = 1

\* C36: an update applied a second time to the same single-item group, after
\* it succeeded once, succeeds again without collision, moves no file, leaves
\* the persisted document as the first application left it and creates no
\* backup.
C36_UpdateIdempotent ==
    [][RepeatedUpdate
          => /\ resp'.status = 200
             /\ fs' = fs
             /\ Persisted' = Persisted
             /\ backups' = backups]_vars
\* an upload and two requests later: the update of every field was answered
\* 200 after its relocation found the file in place, the file is where the
\* item records it, and the one backup is the document the upload had saved
C36_Witness ==
    /\ ops = 3 /\ Persisted.next_id = 2 /\ Len(Persisted.items) = 1
    /\ resp.op = "update" /\ resp.status = 200 /\ resp.upd = UpdAll
    /\ resp.err = "moved"
    /\ Persisted.items[1].brand = S_a
    /\ Persisted.receipts[1].receipt_filename = resp.name
    /\ PathIsFile(fs, PathJoin(BASE_DIR, Persisted.items[1].receipt_relative_path))
    /\ Cardinality(backups) = 1
    /\ \A b \in backups : b.content.doc.items[1].brand = S_NA_SLASH


\* C37: under fair scheduling a thread that holds data_lock gives it back on
\* every way out of its cycle (the save, an early return, an exception), a
\* thread that waits for the lock gets it, and the worker's scan runs again
\* and again, after a cycle that raised as well.
C37_GateReleasedScanRecurs ==
    /\ \A t \in Threads : (lock = t) ~> (lock # t)
    /\ \A t \in Threads : (cycle[t].pc = "wait") ~> (lock = t)
    /\ []<>(cycle["worker"].pc = "loaded")
\* the worker's cycle has raised with the lock held while a request waits
C37_Witness ==
    /\ lock = "worker"
    /\ cycle["worker"].pc = "raised"
    /\ cycle["handler"].pc = "wait"

=============================================================================
